---- MODULE Spec2Model ----
(***************************************************************************)
(* Model of the Student Workspace Component (class AdvancedCodingXBlock):  *)
(* the local file map, the file tabs, the active editing session, the      *)
(* modal dialog, the handler calls in flight and the execution lifecycle;  *)
(* and of the Studio Configuration Component (class                        *)
(* AdvancedCodingStudioXBlock): the repeated test-case and language blocks *)
(* of the settings form and the validation of its fields.  The two         *)
(* components live in different pages and share no state.                  *)
(*                                                                         *)
(* Server handlers are outside the repository: a call stays in `pending`   *)
(* until it settles, calls settle in any order, and each settles with any  *)
(* of the outcomes the client code distinguishes.  The promise chains are  *)
(* modelled with Promises/A+ semantics (then / catch / finally).           *)
(***************************************************************************)
EXTENDS Integers, Sequences, FiniteSets, Bags, TLC

(***************************************************************************)
(* Bounds of the model.                                                    *)
(***************************************************************************)
\* handler calls that may be in flight at the same time
MaxPending == 2
\* user actions that issue a handler call or edit the text, in one behaviour
MaxActions == 2
\* the same, in one behaviour of the editing session
MaxSessionActions == 3
\* the same, in one behaviour of file creation and tab switching
MaxTabActions == 3
\* blocks of one kind (test cases, languages) in the Studio form
MaxBlocks == 3

(***************************************************************************)
(* Text.  A text is a sequence of characters, so that trimming is          *)
(* computed and not assumed.                                               *)
(***************************************************************************)
Space == " "

RECURSIVE TrimStart(_)
TrimStart(s) ==
    IF s # <<>> /\ Head(s) = Space THEN TrimStart(Tail(s)) ELSE s

RECURSIVE TrimEnd(_)
TrimEnd(s) ==
    IF s # <<>> /\ s[Len(s)] = Space
    THEN TrimEnd(SubSeq(s, 1, Len(s) - 1))
    ELSE s

\* the sequence q without its i-th element
Without(q, i) == SubSeq(q, 1, i - 1) \o SubSeq(q, i + 1, Len(q))

\* String.prototype.trim as applied to the file name input
Trim(s) == TrimEnd(TrimStart(s))

\* values the user may have typed in the modal's file name input
FilenameInputs ==
    { <<>>, <<" ">>, <<"a">>, <<" ", "c", " ">> }

NoName == <<>>

\* the languages offered by the language selectors, and their templates
Languages == {"python", "java"}

\* initArgs.supported_languages[language].template
SupportedTemplate(language) ==
    IF language = "python" THEN "T_py" ELSE "T_java"

\* getTemplateForLanguage(language)
getTemplateForLanguage(language) ==
    IF language \in Languages
    THEN SupportedTemplate(language)
    ELSE "// Write your code here"

\* texts the user may leave in the editor by editing
EditTexts == {"", "x"}

(***************************************************************************)
(* The file map this.studentFiles: a JavaScript object, i.e. a map whose   *)
(* keys are kept in insertion order.  An entry whose value is `undefined`  *)
(* (def = FALSE) is a key of the object but holds no file.                 *)
(***************************************************************************)
FileEntry(name, content, language) ==
    [name |-> name, def |-> TRUE, content |-> content, language |-> language]

UndefinedEntry(name) ==
    [name |-> name, def |-> FALSE, content |-> "", language |-> ""]

\* index of key `name`, 0 when it is no key
KeyIndex(fs, name) ==
    IF \E i \in 1..Len(fs) : fs[i].name = name
    THEN CHOOSE i \in 1..Len(fs) : fs[i].name = name
    ELSE 0

\* Object.keys(this.studentFiles)
ObjectKeys(fs) == [i \in 1..Len(fs) |-> fs[i].name]

\* the truthiness of this.studentFiles[name]
HasFile(fs, name) ==
    \E i \in 1..Len(fs) : fs[i].name = name /\ fs[i].def

\* this.studentFiles[name] (an undefined entry when it is no key)
GetFile(fs, name) ==
    IF KeyIndex(fs, name) = 0 THEN UndefinedEntry(name) ELSE fs[KeyIndex(fs, name)]

\* this.studentFiles[name] = entry: an existing key keeps its position,
\* a new key is appended
SetFile(fs, name, entry) ==
    LET e == [entry EXCEPT !.name = name]
    IN  IF KeyIndex(fs, name) = 0
        THEN Append(fs, e)
        ELSE [fs EXCEPT ![KeyIndex(fs, name)] = e]

\* delete this.studentFiles[name]
DeleteKey(fs, name) == SelectSeq(fs, LAMBDA e : e.name # name)

(***************************************************************************)
(* The file tabs (DOM): data-filename, data-language, the classes          *)
(* `modified` and `active`, and the text of .tab-name (the label and       *)
(* whether a `*` is appended to it).                                       *)
(***************************************************************************)
Tab(filename, language) ==
    [filename |-> filename, language |-> language, label |-> filename,
     star |-> FALSE, modified |-> FALSE, active |-> FALSE]

\* querySelector(`[data-filename="..."]`): the first match in document order
TabIndex(ts, filename) ==
    IF \E i \in 1..Len(ts) : ts[i].filename = filename
    THEN CHOOSE i \in 1..Len(ts) :
            /\ ts[i].filename = filename
            /\ \A j \in 1..(i - 1) : ts[j].filename # filename
    ELSE 0

markFileAsModified(ts, filename) ==
    LET i == TabIndex(ts, filename)
    IN  IF i # 0 /\ ~ts[i].modified
        THEN [ts EXCEPT ![i].modified = TRUE, ![i].star = TRUE]
        ELSE ts

\* faulty variant of removeModifiedMark: the mark is toggled
removeModifiedMarkToggles(ts, filename) ==
    LET i == TabIndex(ts, filename)
    IN  IF i # 0
        THEN [ts EXCEPT ![i].modified = ~ts[i].modified,
                        ![i].star = ~ts[i].star]
        ELSE ts

removeModifiedMark(ts, filename) ==
    LET i == TabIndex(ts, filename)
    IN  IF i # 0 /\ ts[i].modified
        THEN [ts EXCEPT ![i].modified = FALSE, ![i].star = FALSE]
        ELSE ts

\* faulty variant of updateFileTabsUI: the class `active` is added to the
\* tab of the active file and removed from no tab
updateFileTabsUIAddsOnly(ts, active) ==
    [i \in 1..Len(ts) |->
        [ts[i] EXCEPT !.active = (ts[i].active \/ ts[i].filename = active)]]

updateFileTabsUI(ts, active) ==
    [i \in 1..Len(ts) |-> [ts[i] EXCEPT !.active = (ts[i].filename = active)]]

addFileTab(ts, filename, language) == Append(ts, Tab(filename, language))

updateFileTab(ts, oldFilename, newFilename) ==
    LET i == TabIndex(ts, oldFilename)
    IN  IF i # 0
        THEN [ts EXCEPT ![i].filename = newFilename,
                        ![i].label = newFilename,
                        ![i].star = FALSE]
        ELSE ts

removeFileTab(ts, filename) ==
    LET i == TabIndex(ts, filename)
    IN  IF i # 0
        THEN [j \in 1..(Len(ts) - 1) |-> IF j < i THEN ts[j] ELSE ts[j + 1]]
        ELSE ts

(***************************************************************************)
(* State.                                                                  *)
(***************************************************************************)
VARIABLES
    studentFiles,      \* this.studentFiles
    activeFile,        \* this.activeFile
    currentLanguage,   \* this.currentLanguage
    editorMode,        \* "none" (this.editor = null, no textarea), "monaco", "fallback"
    editorContent,     \* the text held by the editor widget or the textarea
    tabs,              \* the .file-tab elements, in document order
    currentModal,      \* this.currentModal: "null", "new-file", "rename-file"
    autoSaveTimeout,   \* number of pending debounce timeouts
    autoSaveInterval,  \* number of running auto-save intervals
    isExecuting,       \* this.isExecuting
    loadingShown,      \* the loading overlay is displayed
    buttonsDisabled,   \* the run / run-with-input / submit buttons are disabled
    outputTab,         \* the output tab carrying the class `active`
    consoleOutput,     \* innerHTML of the console output, as a list of blocks
    testSummary,       \* innerHTML of the test summary
    testResults,       \* innerHTML of the test result list, as a list of items
    scoreDisplay,      \* text of .current-score
    pending,           \* the bag of handler calls in flight
    notification,      \* the notification the handler that ran last has shown
    lastExec,          \* the run / submit entry point called last and its branch
    confirmDialog,     \* the confirm() dialog a handler is blocked on
    lastFileOp,        \* what switchToFile did in the handler that ran last
    history,           \* per file of the snapshot: the text the user last had
                       \* in the editor, and the texts the server has
                       \* acknowledged for the file
    left,              \* user actions that may still issue a call or edit the text
    studio             \* the Studio settings form (see the Studio section)

fileVars ==
    <<studentFiles, activeFile, currentLanguage, editorMode, editorContent,
      tabs, currentModal, autoSaveTimeout, autoSaveInterval>>

execVars ==
    <<isExecuting, loadingShown, buttonsDisabled, outputTab, consoleOutput,
      testSummary, testResults, scoreDisplay, lastExec>>

vars ==
    <<studentFiles, activeFile, currentLanguage, editorMode, editorContent,
      tabs, currentModal, autoSaveTimeout, autoSaveInterval,
      isExecuting, loadingShown, buttonsDisabled, outputTab, consoleOutput,
      testSummary, testResults, scoreDisplay,
      lastExec, confirmDialog, lastFileOp, history, pending, notification,
      left, studio>>

\* the variables of the student workspace
workspaceVars ==
    <<studentFiles, activeFile, currentLanguage, editorMode, editorContent,
      tabs, currentModal, autoSaveTimeout, autoSaveInterval,
      isExecuting, loadingShown, buttonsDisabled, outputTab, consoleOutput,
      testSummary, testResults, scoreDisplay,
      lastExec, confirmDialog, lastFileOp, history, pending, notification,
      left>>

\* the Studio form: its test-case blocks and language blocks in document
\* order, the standalone field, the notification shown last, whether the
\* save button is disabled, and what the handler that ran last returned
StudioForm(tests, langs, field, note, saveDisabled, returned) ==
    [tests |-> tests, langs |-> langs, field |-> field, note |-> note,
     saveDisabled |-> saveDisabled, returned |-> returned]

\* a page without the Studio form
NoStudio == StudioForm(<<>>, <<>>, <<>>, "none", FALSE, "none")

Event(op, branch) == [op |-> op, branch |-> branch]

\* the handler that ran last did not call switchToFile
NoFileOp == Event("none", "")

\* confirm(...) opened by deleteFile(filename) or by submitSolution()
Confirm(op, filename) == [op |-> op, filename |-> filename]

NoConfirm == Confirm("none", <<>>)

Notification(type, message) == [type |-> type, message |-> message]

NoNotification == Notification("none", "")

\* a call of this.callHandler(handler, data) that has not settled
Call(origin, filename, content, language, newname) ==
    [origin |-> origin, filename |-> filename, content |-> content,
     language |-> language, newname |-> newname]

\* how a call of save_file, rename_file or delete_file settles:
\*   "ok"          the response has success = true
\*   "fail"        success = false with an error text
\*   "fail_nomsg"  success = false without an error text
\*   "transport"   the call is rejected (network failure, malformed JSON)
Outcomes == {"ok", "fail", "fail_nomsg", "transport"}

ServerError == "server error"
ServerMessage == "server message"

\* response.error || fallback
ErrorText(outcome, fallback) ==
    IF outcome = "fail" THEN ServerError ELSE fallback

\* the calls in flight, one more and one fewer
InFlight == BagCardinality(pending)

Issue(pd, call) == pd (+) SetToBag({call})

Settle(pd, call) == pd (-) SetToBag({call})

(***************************************************************************)
(* Initial state: the state the constructor leaves when the editor        *)
(* library is already present, so that the editor and the auto-save        *)
(* interval are created inside the constructor.  The snapshot holds one    *)
(* or two files (the second with or without stored content), one tab per  *)
(* file, and the active file is a file of the snapshot.                    *)
(***************************************************************************)
InitialFiles ==
    { << FileEntry(<<"a">>, "A0", "python") >>,
      << FileEntry(<<"a">>, "A0", "python"), FileEntry(<<"b">>, "B0", "java") >>,
      << FileEntry(<<"a">>, "A0", "python"), FileEntry(<<"b">>, "", "java") >> }

\* loadActiveFile / initializeMonacoEditor: fileData.content || template
LoadedContent(fs, filename, language) ==
    IF GetFile(fs, filename).def /\ GetFile(fs, filename).content # ""
    THEN GetFile(fs, filename).content
    ELSE getTemplateForLanguage(language)

\* showFallbackEditor: fileData.content || ''
FallbackContent(fs, filename) ==
    IF GetFile(fs, filename).def THEN GetFile(fs, filename).content ELSE ""

\* the history at the start: what the snapshot holds is what the user last
\* had in the editor, and the one text the server has acknowledged
InitialHistory(fs) ==
    LET f0 == [n \in { fs[i].name : i \in 1..Len(fs) } |->
                 GetFile(fs, n).content]
    IN  [edited |-> f0, acked |-> [n \in DOMAIN f0 |-> {f0[n]}]]

\* the user has text in the editor for the active file
Edited(h, filename, text) ==
    IF filename \in DOMAIN h.edited
    THEN [h EXCEPT !.edited[filename] = text]
    ELSE h

\* a save_file request naming filename and carrying text was answered success
Acked(h, filename, text) ==
    IF filename \in DOMAIN h.acked
    THEN [h EXCEPT !.acked[filename] = @ \cup {text}]
    ELSE h

\* the state the constructor leaves, with the editor in one of `modes` and
\* `budget` user actions allowed
WorkspaceInit(modes, budget) ==
    /\ studentFiles \in InitialFiles
    /\ activeFile = <<"a">>
    /\ currentLanguage = "python"
    /\ editorMode \in modes
    /\ editorContent =
          IF editorMode = "monaco"
          THEN LoadedContent(studentFiles, activeFile, currentLanguage)
          ELSE ""
    /\ tabs = updateFileTabsUI(
                 [i \in 1..Len(studentFiles) |->
                     Tab(studentFiles[i].name, studentFiles[i].language)],
                 activeFile)
    /\ currentModal = "null"
    /\ autoSaveTimeout = 0
    /\ autoSaveInterval = IF editorMode = "monaco" THEN 1 ELSE 0
    /\ isExecuting = FALSE
    /\ loadingShown = FALSE
    /\ buttonsDisabled = FALSE
    /\ outputTab = "console"
    /\ consoleOutput = <<>>
    /\ testSummary = <<>>
    /\ testResults = <<>>
    /\ scoreDisplay = <<"0", ".", "0">>
    /\ pending = EmptyBag
    /\ notification = NoNotification
    /\ lastExec = Event("none", "")
    /\ confirmDialog = NoConfirm
    /\ lastFileOp = NoFileOp
    /\ history = InitialHistory(studentFiles)
    /\ left = budget

\* the workspace alone in its page
InitWith(modes, budget) ==
    /\ studio = NoStudio
    /\ WorkspaceInit(modes, budget)

Init == InitWith({"monaco"}, MaxActions)

(***************************************************************************)
(* Editor and save path.                                                   *)
(***************************************************************************)
\* no confirm() dialog is open: while one is, the page runs nothing else
Idle == confirmDialog = NoConfirm

getCurrentEditorContent ==
    IF editorMode = "none" THEN "" ELSE editorContent

\* the save_file call saveCurrentFile() issues
SaveCall ==
    Call("save", activeFile, getCurrentEditorContent, currentLanguage, NoName)

\* a user action may issue one more handler call
MayCall == InFlight < MaxPending /\ left > 0

\* updateStudentFiles(filename, content)
updateStudentFiles(fs, filename, content) ==
    SetFile(fs, filename, FileEntry(filename, content, currentLanguage))

\* faulty variant of switchToFile: no test for the active file
switchToFileAlways(fs, ts, pd, filename, language) ==
    /\ pending' = Issue(pd, SaveCall)
    /\ UNCHANGED studio
    /\ lastFileOp' =
          Event("switchToFile", IF activeFile = filename THEN "same"
                                                         ELSE "switched")
    /\ UNCHANGED history
    /\ activeFile' = filename
    /\ currentLanguage' = language
    /\ editorContent' =
          IF editorMode = "none"
          THEN editorContent
          ELSE LoadedContent(fs, filename, language)
    /\ tabs' = updateFileTabsUI(ts, filename)

\* switchToFile(filename, language) run on the file map fs, the tabs ts and
\* the calls in flight pd; the caller sets studentFiles'
switchToFile(fs, ts, pd, filename, language) ==
    IF activeFile = filename
    THEN /\ pending' = pd
         /\ tabs' = ts
         /\ UNCHANGED studio
         /\ lastFileOp' = Event("switchToFile", "same")
         /\ UNCHANGED history
         /\ UNCHANGED <<activeFile, currentLanguage, editorContent>>
    ELSE /\ pending' = Issue(pd, SaveCall)
         /\ UNCHANGED studio
         /\ lastFileOp' = Event("switchToFile", "switched")
         /\ UNCHANGED history
         /\ activeFile' = filename
         /\ currentLanguage' = language
         /\ editorContent' =
               IF editorMode = "none"
               THEN editorContent
               ELSE LoadedContent(fs, filename, language)
         /\ tabs' = updateFileTabsUI(ts, filename)

\* click on the i-th file tab
ClickFileTab(i) ==
    /\ Idle
    /\ i \in 1..Len(tabs)
    /\ tabs[i].filename # activeFile => MayCall
    /\ switchToFile(studentFiles, tabs, pending, tabs[i].filename, tabs[i].language)
    /\ studentFiles' = studentFiles
    /\ left' = IF tabs[i].filename # activeFile THEN left - 1 ELSE left
    /\ notification' = NoNotification
    /\ UNCHANGED <<editorMode, currentModal, autoSaveTimeout, autoSaveInterval>>
    /\ UNCHANGED <<execVars, confirmDialog>>

\* saveCurrentFile() called from an event handler or a timer
saveCurrentFile(op) ==
    /\ Idle
    /\ MayCall
    /\ pending' = Issue(pending, SaveCall)
    /\ left' = left - 1

\* click on .save-file-btn
ClickSaveBtn ==
    /\ saveCurrentFile("saveCurrentFile")
    /\ notification' = NoNotification
    /\ UNCHANGED <<fileVars>>
    /\ UNCHANGED <<execVars, confirmDialog>>
    /\ UNCHANGED studio
    /\ lastFileOp' = NoFileOp
    /\ UNCHANGED history

\* faulty variant of EditorInput: the pending debounce timeout is not cleared
EditorInputStacksTimeouts(text) ==
    /\ Idle
    /\ editorMode # "none"
    /\ left > 0
    /\ text # editorContent
    /\ editorContent' = text
    /\ left' = left - 1
    /\ tabs' = markFileAsModified(tabs, activeFile)
    /\ autoSaveTimeout' = autoSaveTimeout + 1
    /\ notification' = NoNotification
    /\ UNCHANGED <<studentFiles, activeFile, currentLanguage, editorMode,
                   currentModal, autoSaveInterval, pending>>
    /\ UNCHANGED <<execVars, confirmDialog>>
    /\ UNCHANGED studio
    /\ lastFileOp' = NoFileOp
    /\ history' = Edited(history, activeFile, text)

\* the user edits the text: onEditorContentChange()
EditorInput(text) ==
    /\ Idle
    /\ editorMode # "none"
    /\ left > 0
    /\ text # editorContent
    /\ editorContent' = text
    /\ left' = left - 1
    /\ tabs' = markFileAsModified(tabs, activeFile)
    /\ autoSaveTimeout' =
          (IF autoSaveTimeout > 0 THEN autoSaveTimeout - 1 ELSE 0) + 1
    /\ notification' = NoNotification
    /\ UNCHANGED <<studentFiles, activeFile, currentLanguage, editorMode,
                   currentModal, autoSaveInterval, pending>>
    /\ UNCHANGED <<execVars, confirmDialog>>
    /\ UNCHANGED studio
    /\ lastFileOp' = NoFileOp
    /\ history' = Edited(history, activeFile, text)

\* faulty variant of AutoSaveTimeoutFires: the timeout is armed again when
\* it fires
AutoSaveTimeoutRepeats ==
    /\ autoSaveTimeout > 0
    /\ saveCurrentFile("autoSaveTimeout")
    /\ notification' = NoNotification
    /\ UNCHANGED fileVars
    /\ UNCHANGED <<execVars, confirmDialog>>
    /\ UNCHANGED studio
    /\ lastFileOp' = NoFileOp
    /\ UNCHANGED history

\* the debounce timeout set by onEditorContentChange fires
AutoSaveTimeoutFires ==
    /\ autoSaveTimeout > 0
    /\ saveCurrentFile("autoSaveTimeout")
    /\ autoSaveTimeout' = autoSaveTimeout - 1
    /\ notification' = NoNotification
    /\ UNCHANGED <<studentFiles, activeFile, currentLanguage, editorMode,
                   editorContent, tabs, currentModal, autoSaveInterval>>
    /\ UNCHANGED <<execVars, confirmDialog>>
    /\ UNCHANGED studio
    /\ lastFileOp' = NoFileOp
    /\ UNCHANGED history

\* the interval set by setupAutoSave fires
AutoSaveIntervalFires ==
    /\ autoSaveInterval > 0
    /\ saveCurrentFile("autoSaveInterval")
    /\ notification' = NoNotification
    /\ UNCHANGED <<fileVars>>
    /\ UNCHANGED <<execVars, confirmDialog>>
    /\ UNCHANGED studio
    /\ lastFileOp' = NoFileOp
    /\ UNCHANGED history

\* setupAutoSave()
setupAutoSave(n) == (IF n > 0 THEN n - 1 ELSE 0) + 1

\* initializeMonacoEditor: the library has loaded and the editor is created
MonacoLoaded ==
    /\ Idle
    /\ editorMode = "none"
    /\ editorMode' = "monaco"
    /\ editorContent' = LoadedContent(studentFiles, activeFile, currentLanguage)
    /\ autoSaveInterval' = setupAutoSave(autoSaveInterval)
    /\ notification' = NoNotification
    /\ UNCHANGED <<studentFiles, activeFile, currentLanguage, tabs,
                   currentModal, autoSaveTimeout, pending, left>>
    /\ UNCHANGED <<execVars, confirmDialog>>
    /\ UNCHANGED studio
    /\ lastFileOp' = NoFileOp
    /\ UNCHANGED history

\* initializeMonacoEditor: loading failed, showFallbackEditor()
MonacoLoadFailed ==
    /\ Idle
    /\ editorMode = "none"
    /\ editorMode' = "fallback"
    /\ editorContent' = FallbackContent(studentFiles, activeFile)
    /\ notification' = NoNotification
    /\ UNCHANGED <<studentFiles, activeFile, currentLanguage, tabs,
                   currentModal, autoSaveTimeout, autoSaveInterval, pending,
                   left>>
    /\ UNCHANGED <<execVars, confirmDialog>>
    /\ UNCHANGED studio
    /\ lastFileOp' = NoFileOp
    /\ UNCHANGED history

\* faulty variant of SaveSettles: the success branch runs whatever the
\* response says
SaveSettlesAlways(call, outcome) ==
    /\ Idle
    /\ BagIn(call, pending)
    /\ call.origin = "save"
    /\ pending' = Settle(pending, call)
    /\ tabs' = removeModifiedMark(tabs, activeFile)
    /\ studentFiles' = updateStudentFiles(studentFiles, activeFile, call.content)
    /\ notification' =
          IF outcome = "ok"
          THEN NoNotification
          ELSE Notification("error", ErrorText(outcome, "Failed to save file"))
    /\ UNCHANGED <<activeFile, currentLanguage, editorMode, editorContent,
                   currentModal, autoSaveTimeout, autoSaveInterval, left>>
    /\ UNCHANGED <<execVars, confirmDialog>>
    /\ UNCHANGED studio
    /\ lastFileOp' = NoFileOp
    /\ history' =
          IF outcome = "ok"
          THEN Acked(history, call.filename, call.content)
          ELSE history

\* a save_file call issued by saveCurrentFile settles
SaveSettles(call, outcome) ==
    /\ Idle
    /\ BagIn(call, pending)
    /\ call.origin = "save"
    /\ pending' = Settle(pending, call)
    /\ IF outcome = "ok"
       THEN /\ tabs' = removeModifiedMark(tabs, activeFile)
            /\ studentFiles' =
                  updateStudentFiles(studentFiles, activeFile, call.content)
            /\ notification' = NoNotification
       ELSE /\ notification' =
                  Notification("error", ErrorText(outcome, "Failed to save file"))
            /\ UNCHANGED <<tabs, studentFiles>>
    /\ UNCHANGED <<activeFile, currentLanguage, editorMode, editorContent,
                   currentModal, autoSaveTimeout, autoSaveInterval, left>>
    /\ UNCHANGED <<execVars, confirmDialog>>
    /\ UNCHANGED studio
    /\ lastFileOp' = NoFileOp
    /\ history' =
          IF outcome = "ok"
          THEN Acked(history, call.filename, call.content)
          ELSE history

\* faulty variant of changeLanguage: no test for the current language
changeLanguageAlways(newLanguage) ==
    /\ Idle
    /\ MayCall
    /\ currentLanguage' = newLanguage
    /\ studentFiles' =
          IF HasFile(studentFiles, activeFile)
          THEN SetFile(studentFiles, activeFile,
                       [GetFile(studentFiles, activeFile)
                           EXCEPT !.language = newLanguage])
          ELSE studentFiles
    /\ tabs' =
          IF TabIndex(tabs, activeFile) # 0
          THEN [tabs EXCEPT ![TabIndex(tabs, activeFile)].language = newLanguage]
          ELSE tabs
    /\ pending' = Issue(pending,
          Call("save", activeFile, getCurrentEditorContent, newLanguage,
               NoName))
    /\ left' = left - 1
    /\ notification' = NoNotification
    /\ UNCHANGED <<activeFile, editorMode, editorContent, currentModal,
                   autoSaveTimeout, autoSaveInterval>>
    /\ UNCHANGED <<execVars, confirmDialog>>
    /\ UNCHANGED studio
    /\ lastFileOp' = NoFileOp
    /\ UNCHANGED history

\* the language selector changes: changeLanguage(newLanguage)
changeLanguage(newLanguage) ==
    IF currentLanguage = newLanguage
    THEN /\ Idle
         /\ notification' = NoNotification
         /\ UNCHANGED <<fileVars, pending, left>>
         /\ UNCHANGED <<execVars, confirmDialog>>
         /\ UNCHANGED studio
         /\ lastFileOp' = NoFileOp
         /\ UNCHANGED history
    ELSE /\ Idle
         /\ MayCall
         /\ currentLanguage' = newLanguage
         /\ studentFiles' =
               IF HasFile(studentFiles, activeFile)
               THEN SetFile(studentFiles, activeFile,
                            [GetFile(studentFiles, activeFile)
                                EXCEPT !.language = newLanguage])
               ELSE studentFiles
         /\ tabs' =
               IF TabIndex(tabs, activeFile) # 0
               THEN [tabs EXCEPT ![TabIndex(tabs, activeFile)].language = newLanguage]
               ELSE tabs
         /\ pending' = Issue(pending,
               Call("save", activeFile, getCurrentEditorContent, newLanguage,
                    NoName))
         /\ left' = left - 1
         /\ notification' = NoNotification
         /\ UNCHANGED <<activeFile, editorMode, editorContent, currentModal,
                        autoSaveTimeout, autoSaveInterval>>
         /\ UNCHANGED <<execVars, confirmDialog>>
         /\ UNCHANGED studio
         /\ lastFileOp' = NoFileOp
         /\ UNCHANGED history

(***************************************************************************)
(* The modal dialog, and creating and renaming files.                      *)
(***************************************************************************)
\* click on .new-file-btn: showNewFileModal()
ClickNewFileBtn ==
    /\ Idle
    /\ currentModal' = "new-file"
    /\ notification' = NoNotification
    /\ UNCHANGED <<studentFiles, activeFile, currentLanguage, editorMode,
                   editorContent, tabs, autoSaveTimeout, autoSaveInterval,
                   pending, left>>
    /\ UNCHANGED <<execVars, confirmDialog>>
    /\ UNCHANGED studio
    /\ lastFileOp' = NoFileOp
    /\ UNCHANGED history

\* click on .rename-file-btn: showRenameFileModal()
ClickRenameFileBtn ==
    /\ Idle
    /\ currentModal' = "rename-file"
    /\ notification' = NoNotification
    /\ UNCHANGED <<studentFiles, activeFile, currentLanguage, editorMode,
                   editorContent, tabs, autoSaveTimeout, autoSaveInterval,
                   pending, left>>
    /\ UNCHANGED <<execVars, confirmDialog>>
    /\ UNCHANGED studio
    /\ lastFileOp' = NoFileOp
    /\ UNCHANGED history

\* click on .modal-close or .modal-cancel: hideModal()
ClickModalCancel ==
    /\ Idle
    /\ currentModal # "null"
    /\ currentModal' = "null"
    /\ notification' = NoNotification
    /\ UNCHANGED <<studentFiles, activeFile, currentLanguage, editorMode,
                   editorContent, tabs, autoSaveTimeout, autoSaveInterval,
                   pending, left>>
    /\ UNCHANGED <<execVars, confirmDialog>>
    /\ UNCHANGED studio
    /\ lastFileOp' = NoFileOp
    /\ UNCHANGED history

\* faulty variant of createNewFile: the file name is not trimmed
createNewFileUntrimmed(input, language) ==
    LET filename == input
    IN  /\ IF filename = <<>>
           THEN /\ notification' =
                      Notification("error", "File name is required")
                /\ UNCHANGED <<pending, left>>
           ELSE IF HasFile(studentFiles, filename)
           THEN /\ notification' =
                      Notification("error", "File already exists")
                /\ UNCHANGED <<pending, left>>
           ELSE /\ MayCall
                /\ pending' = Issue(pending,
                      Call("create", filename, getTemplateForLanguage(language),
                           language, NoName))
                /\ left' = left - 1
                /\ notification' = NoNotification
        /\ UNCHANGED fileVars
        /\ UNCHANGED <<execVars, confirmDialog>>

\* createNewFile(), with the file name input holding `input` and the modal's
\* language selector holding `language`
createNewFile(input, language) ==
    LET filename == Trim(input)
    IN  /\ IF filename = <<>>
           THEN /\ notification' = Notification("error", "File name is required")
                /\ UNCHANGED <<pending, left>>
           ELSE IF HasFile(studentFiles, filename)
           THEN /\ notification' = Notification("error", "File already exists")
                /\ UNCHANGED <<pending, left>>
           ELSE /\ MayCall
                /\ pending' = Issue(pending,
                      Call("create", filename, getTemplateForLanguage(language),
                           language, NoName))
                /\ left' = left - 1
                /\ notification' = NoNotification
        /\ UNCHANGED fileVars
        /\ UNCHANGED <<execVars, confirmDialog>>

\* faulty variant of renameCurrentFile: no check for an existing file
renameCurrentFileOverExisting(input) ==
    LET newFilename == Trim(input)
    IN  /\ IF newFilename = <<>>
           THEN /\ notification' =
                      Notification("error", "File name is required")
                /\ UNCHANGED <<pending, left, currentModal>>
           ELSE IF newFilename = activeFile
           THEN /\ currentModal' = "null"
                /\ notification' = NoNotification
                /\ UNCHANGED <<pending, left>>
           ELSE /\ MayCall
                /\ pending' = Issue(pending,
                      Call("rename", activeFile, "", "", newFilename))
                /\ left' = left - 1
                /\ notification' = NoNotification
                /\ UNCHANGED <<currentModal>>
        /\ UNCHANGED <<studentFiles, activeFile, currentLanguage, editorMode,
                       editorContent, tabs, autoSaveTimeout, autoSaveInterval>>
        /\ UNCHANGED <<execVars, confirmDialog>>

\* renameCurrentFile(), with the file name input holding `input`
renameCurrentFile(input) ==
    LET newFilename == Trim(input)
    IN  /\ IF newFilename = <<>>
           THEN /\ notification' = Notification("error", "File name is required")
                /\ UNCHANGED <<pending, left, currentModal>>
           ELSE IF newFilename = activeFile
           THEN /\ currentModal' = "null"
                /\ notification' = NoNotification
                /\ UNCHANGED <<pending, left>>
           ELSE IF HasFile(studentFiles, newFilename)
           THEN /\ notification' =
                      Notification("error", "File with that name already exists")
                /\ UNCHANGED <<pending, left, currentModal>>
           ELSE /\ MayCall
                /\ pending' = Issue(pending,
                      Call("rename", activeFile, "", "", newFilename))
                /\ left' = left - 1
                /\ notification' = NoNotification
                /\ UNCHANGED <<currentModal>>
        /\ UNCHANGED <<studentFiles, activeFile, currentLanguage, editorMode,
                       editorContent, tabs, autoSaveTimeout, autoSaveInterval>>
        /\ UNCHANGED <<execVars, confirmDialog>>

\* click on .modal-confirm: handleModalConfirm()
ClickModalConfirm(input, language) ==
    /\ Idle
    /\ currentModal # "null"
    /\ IF currentModal = "new-file"
       THEN createNewFile(input, language)
       ELSE renameCurrentFile(input)
    /\ UNCHANGED studio
    /\ lastFileOp' = NoFileOp
    /\ UNCHANGED history

\* faulty variant of CreateSettles: the file is registered whatever the
\* response is
CreateSettlesAlways(call, outcome) ==
    /\ Idle
    /\ BagIn(call, pending)
    /\ call.origin = "create"
    /\ LET filename == call.filename
           language == call.language
           fs == SetFile(studentFiles, filename,
                         FileEntry(filename, call.content, language))
       IN  /\ studentFiles' = fs
           /\ switchToFile(fs, addFileTab(tabs, filename, language),
                           Settle(pending, call), filename, language)
           /\ currentModal' = "null"
           /\ notification' =
                 IF outcome = "ok"
                 THEN Notification("success", "File created successfully")
                 ELSE Notification("error",
                         ErrorText(outcome, "Failed to create file"))
    /\ UNCHANGED <<editorMode, autoSaveTimeout, autoSaveInterval, left>>
    /\ UNCHANGED <<execVars, confirmDialog>>

\* the save_file call issued by createNewFile settles
CreateSettles(call, outcome) ==
    /\ Idle
    /\ BagIn(call, pending)
    /\ call.origin = "create"
    /\ IF outcome = "ok"
       THEN LET filename == call.filename
                language == call.language
                fs == SetFile(studentFiles, filename,
                              FileEntry(filename, call.content, language))
            IN  /\ studentFiles' = fs
                /\ switchToFile(fs, addFileTab(tabs, filename, language),
                                Settle(pending, call), filename, language)
                /\ currentModal' = "null"
                /\ notification' =
                      Notification("success", "File created successfully")
       ELSE /\ pending' = Settle(pending, call)
            /\ UNCHANGED studio
            /\ lastFileOp' = NoFileOp
            /\ UNCHANGED history
            /\ notification' =
                  Notification("error", ErrorText(outcome, "Failed to create file"))
            /\ UNCHANGED <<studentFiles, activeFile, currentLanguage,
                           editorContent, tabs, currentModal>>
    /\ UNCHANGED <<editorMode, autoSaveTimeout, autoSaveInterval, left>>
    /\ UNCHANGED <<execVars, confirmDialog>>

\* faulty variant of RenameSettles: the rename is applied whatever the
\* response is
RenameSettlesAlways(call, outcome) ==
    /\ Idle
    /\ BagIn(call, pending)
    /\ call.origin = "rename"
    /\ pending' = Settle(pending, call)
    /\ LET newFilename == call.newname
       IN  /\ studentFiles' =
                 DeleteKey(SetFile(studentFiles, newFilename,
                                   GetFile(studentFiles, activeFile)),
                           activeFile)
           /\ tabs' = updateFileTab(tabs, activeFile, newFilename)
           /\ activeFile' = newFilename
           /\ currentModal' = "null"
           /\ notification' =
                 IF outcome = "ok"
                 THEN Notification("success", ServerMessage)
                 ELSE Notification("error",
                         ErrorText(outcome, "Failed to rename file"))
    /\ UNCHANGED <<currentLanguage, editorMode, editorContent, autoSaveTimeout,
                   autoSaveInterval, left>>
    /\ UNCHANGED <<execVars, confirmDialog>>
    /\ UNCHANGED studio
    /\ lastFileOp' = NoFileOp
    /\ UNCHANGED history

\* the rename_file call settles
RenameSettles(call, outcome) ==
    /\ Idle
    /\ BagIn(call, pending)
    /\ call.origin = "rename"
    /\ pending' = Settle(pending, call)
    /\ IF outcome = "ok"
       THEN LET newFilename == call.newname
            IN  /\ studentFiles' =
                      DeleteKey(SetFile(studentFiles, newFilename,
                                        GetFile(studentFiles, activeFile)),
                                activeFile)
                /\ tabs' = updateFileTab(tabs, activeFile, newFilename)
                /\ activeFile' = newFilename
                /\ currentModal' = "null"
                /\ notification' = Notification("success", ServerMessage)
       ELSE /\ notification' =
                  Notification("error", ErrorText(outcome, "Failed to rename file"))
            /\ UNCHANGED <<studentFiles, tabs, activeFile, currentModal>>
    /\ UNCHANGED <<currentLanguage, editorMode, editorContent, autoSaveTimeout,
                   autoSaveInterval, left>>
    /\ UNCHANGED <<execVars, confirmDialog>>
    /\ UNCHANGED studio
    /\ lastFileOp' = NoFileOp
    /\ UNCHANGED history

(***************************************************************************)
(* Deleting files.                                                         *)
(***************************************************************************)
\* faulty variant of deleteFile: the last file is not protected
deleteFileOfLast(filename) ==
    /\ Idle
    /\ IF Len(ObjectKeys(studentFiles)) < 1
       THEN /\ notification' =
                  Notification("error", "Cannot delete the last file")
            /\ confirmDialog' = NoConfirm
       ELSE /\ MayCall
            /\ confirmDialog' = Confirm("deleteFile", filename)
            /\ notification' = NoNotification
    /\ UNCHANGED <<fileVars, pending, left>>
    /\ UNCHANGED execVars
    /\ UNCHANGED studio
    /\ lastFileOp' = NoFileOp
    /\ UNCHANGED history

\* deleteFile(filename) up to its confirm() dialog
deleteFile(filename) ==
    /\ Idle
    /\ IF Len(ObjectKeys(studentFiles)) <= 1
       THEN /\ notification' = Notification("error", "Cannot delete the last file")
            /\ confirmDialog' = NoConfirm
       ELSE /\ MayCall
            /\ confirmDialog' = Confirm("deleteFile", filename)
            /\ notification' = NoNotification
    /\ UNCHANGED <<fileVars, pending, left>>
    /\ UNCHANGED execVars
    /\ UNCHANGED studio
    /\ lastFileOp' = NoFileOp
    /\ UNCHANGED history

\* click on the .tab-close button of the i-th tab
ClickTabClose(i) ==
    /\ i \in 1..Len(tabs)
    /\ deleteFile(tabs[i].filename)

\* click on .delete-file-btn
ClickDeleteFileBtn ==
    deleteFile(activeFile)

\* deleteFile(filename) from the answer to its confirm() dialog
deleteFileConfirmed(confirmed) ==
    /\ confirmDialog.op = "deleteFile"
    /\ confirmDialog' = NoConfirm
    /\ IF ~confirmed
       THEN UNCHANGED <<pending, left>>
       ELSE /\ pending' = Issue(pending,
                  Call("delete", confirmDialog.filename, "", "", NoName))
            /\ left' = left - 1
    /\ notification' = NoNotification
    /\ UNCHANGED <<fileVars>>
    /\ UNCHANGED execVars
    /\ UNCHANGED studio
    /\ lastFileOp' = NoFileOp
    /\ UNCHANGED history

\* faulty variant of DeleteSettles: the file and its tab are removed
\* whatever the response is
DeleteSettlesAlways(call, outcome) ==
    /\ Idle
    /\ BagIn(call, pending)
    /\ call.origin = "delete"
    /\ pending' = Settle(pending, call)
    /\ studentFiles' = DeleteKey(studentFiles, call.filename)
    /\ tabs' = removeFileTab(tabs, call.filename)
    /\ notification' =
          IF outcome = "ok"
          THEN Notification("success", ServerMessage)
          ELSE Notification("error", ErrorText(outcome, "Failed to delete file"))
    /\ UNCHANGED <<activeFile, currentLanguage, editorContent>>
    /\ UNCHANGED <<editorMode, currentModal, autoSaveTimeout, autoSaveInterval,
                   left>>
    /\ UNCHANGED <<execVars, confirmDialog>>
    /\ UNCHANGED studio
    /\ lastFileOp' = NoFileOp
    /\ UNCHANGED history

\* faulty variant of DeleteSettles: after the active file is deleted the
\* last remaining file is opened
DeleteSettlesOpensLast(call, outcome) ==
    /\ Idle
    /\ BagIn(call, pending)
    /\ call.origin = "delete"
    /\ IF outcome = "ok"
       THEN LET filename == call.filename
                fs == DeleteKey(studentFiles, filename)
                ts == removeFileTab(tabs, filename)
                pd == Settle(pending, call)
            IN  /\ studentFiles' = fs
                /\ notification' = Notification("success", ServerMessage)
                /\ IF activeFile = filename /\ Len(ObjectKeys(fs)) > 0
                   THEN switchToFile(fs, ts, pd, fs[Len(fs)].name,
                                     fs[Len(fs)].language)
                   ELSE /\ pending' = pd
                        /\ tabs' = ts
                        /\ UNCHANGED studio
                        /\ lastFileOp' = NoFileOp
                        /\ UNCHANGED history
                        /\ UNCHANGED <<activeFile, currentLanguage,
                                       editorContent>>
       ELSE /\ pending' = Settle(pending, call)
            /\ UNCHANGED studio
            /\ lastFileOp' = NoFileOp
            /\ UNCHANGED history
            /\ notification' =
                  Notification("error", ErrorText(outcome, "Failed to delete file"))
            /\ UNCHANGED <<studentFiles, activeFile, currentLanguage,
                           editorContent, tabs>>
    /\ UNCHANGED <<editorMode, currentModal, autoSaveTimeout, autoSaveInterval,
                   left>>
    /\ UNCHANGED <<execVars, confirmDialog>>

\* the delete_file call settles
DeleteSettles(call, outcome) ==
    /\ Idle
    /\ BagIn(call, pending)
    /\ call.origin = "delete"
    /\ IF outcome = "ok"
       THEN LET filename == call.filename
                fs == DeleteKey(studentFiles, filename)
                ts == removeFileTab(tabs, filename)
                pd == Settle(pending, call)
            IN  /\ studentFiles' = fs
                /\ IF activeFile = filename /\ Len(ObjectKeys(fs)) > 0
                   THEN IF fs[1].def
                        THEN /\ switchToFile(fs, ts, pd, fs[1].name, fs[1].language)
                             /\ notification' =
                                   Notification("success", ServerMessage)
                        ELSE \* firstFileData is undefined: reading .language
                             \* throws, and the chain's catch handler runs
                             /\ pending' = pd
                             /\ tabs' = ts
                             /\ UNCHANGED studio
                             /\ lastFileOp' = NoFileOp
                             /\ UNCHANGED history
                             /\ notification' =
                                   Notification("error", "Failed to delete file")
                             /\ UNCHANGED <<activeFile, currentLanguage,
                                            editorContent>>
                   ELSE /\ pending' = pd
                        /\ tabs' = ts
                        /\ UNCHANGED studio
                        /\ lastFileOp' = NoFileOp
                        /\ UNCHANGED history
                        /\ notification' = Notification("success", ServerMessage)
                        /\ UNCHANGED <<activeFile, currentLanguage, editorContent>>
       ELSE /\ pending' = Settle(pending, call)
            /\ UNCHANGED studio
            /\ lastFileOp' = NoFileOp
            /\ UNCHANGED history
            /\ notification' =
                  Notification("error", ErrorText(outcome, "Failed to delete file"))
            /\ UNCHANGED <<studentFiles, activeFile, currentLanguage,
                           editorContent, tabs>>
    /\ UNCHANGED <<editorMode, currentModal, autoSaveTimeout, autoSaveInterval, left>>
    /\ UNCHANGED <<execVars, confirmDialog>>

(***************************************************************************)
(* Running and submitting.  Markup is a sequence of text atoms; escapeHtml *)
(* replaces the atoms that are markup characters by their entities.        *)
(***************************************************************************)
EscapeAtom(c) ==
    IF c = "<" THEN "&lt;"
    ELSE IF c = ">" THEN "&gt;"
    ELSE IF c = "&" THEN "&amp;"
    ELSE c

\* faulty variant of escapeHtml: the text is returned as it came
escapeHtmlRaw(text) == text

\* escapeHtml(text): div.textContent = text; return div.innerHTML
escapeHtml(text) == [i \in 1..Len(text) |-> EscapeAtom(text[i])]

\* a block of rendered markup: its class and its inner markup
Block(cls, html) == [cls |-> cls, html |-> html]

\* Number.prototype.toFixed(1) of a score given in hundredths
toFixed1(hundredths) ==
    LET tenths == (hundredths + 5) \div 10
    IN  <<ToString(tenths \div 10), ".", ToString(tenths % 10)>>

\* how a run_code call settles: rejected ("transport"), resolved with a
\* value that is no object ("null"), or resolved with a response object
RunResponse(kind, success, output, error, compile_output, status, time, memory) ==
    [kind |-> kind, success |-> success, output |-> output, error |-> error,
     compile_output |-> compile_output, status |-> status, time |-> time,
     memory |-> memory]

\* response.status: absent, or an object with a description (maybe empty)
Status(present, description) == [present |-> present, description |-> description]

NoStatus == Status(FALSE, <<>>)

RunResponses ==
    { RunResponse("transport", FALSE, <<>>, <<>>, <<>>, NoStatus, <<>>, <<>>),
      RunResponse("null", FALSE, <<>>, <<>>, <<>>, NoStatus, <<>>, <<>>),
      RunResponse("object", FALSE, <<>>, <<"Compilation error">>, <<>>,
                  NoStatus, <<>>, <<>>),
      RunResponse("object", FALSE, <<>>, <<>>, <<>>, NoStatus, <<>>, <<>>),
      RunResponse("object", FALSE, <<>>, <<"E", "<", "1", ">">>, <<>>,
                  NoStatus, <<>>, <<>>),
      RunResponse("object", TRUE, <<"4">>, <<>>, <<>>,
                  Status(TRUE, <<"Accepted">>), <<"0.1">>, <<"9">>),
      RunResponse("object", TRUE, <<>>, <<"a", "<", "b">>, <<"w", "&">>,
                  Status(TRUE, <<>>), <<>>, <<>>),
      RunResponse("object", TRUE, <<"1">>, <<>>, <<>>,
                  Status(TRUE, <<"<", "i", ">">>), <<"0.2">>, <<>>) }

\* displayExecutionResult(response), for a response object
displayExecutionResult(response) ==
    IF response.success
    THEN (IF response.compile_output # <<>>
          THEN << Block("console-label", <<"Compilation:">>),
                  Block("output-line", escapeHtml(response.compile_output)) >>
          ELSE <<>>)
         \o (IF response.output # <<>>
             THEN << Block("console-label", <<"Output:">>),
                     Block("success-line", escapeHtml(response.output)) >>
             ELSE << Block("console-message", <<"No output produced">>) >>)
         \o (IF response.error # <<>>
             THEN << Block("console-label", <<"Errors:">>),
                     Block("error-line", escapeHtml(response.error)) >>
             ELSE <<>>)
         \o (IF response.status.present
             THEN << Block("console-info",
                        <<"Status: ">>
                        \o (IF response.status.description # <<>>
                            THEN response.status.description
                            ELSE <<"Completed">>)
                        \o <<" | Time: ">>
                        \o (IF response.time # <<>> THEN response.time ELSE <<"0">>)
                        \o <<"s | Memory: ">>
                        \o (IF response.memory # <<>> THEN response.memory
                                                      ELSE <<"0">>)
                        \o <<"KB">>) >>
             ELSE <<>>)
    ELSE << Block("error-line",
                  escapeHtml(IF response.error # <<>>
                             THEN response.error
                             ELSE <<"Execution failed">>)) >>

\* displayExecutionError(error)
displayExecutionError(error) == << Block("error-line", escapeHtml(error)) >>

\* faulty variant of setExecutionState: the buttons are never enabled again
setExecutionStateKeepsDisabled(executing) ==
    /\ isExecuting' = executing
    /\ loadingShown' = executing
    /\ buttonsDisabled' = (executing \/ buttonsDisabled)

\* setExecutionState(executing)
setExecutionState(executing) ==
    /\ isExecuting' = executing
    /\ loadingShown' = executing
    /\ buttonsDisabled' = executing

\* faulty variant of startRun: no re-entrancy guard
startRunUnguarded(op, input) ==
    /\ InFlight < MaxPending
    /\ setExecutionState(TRUE)
    /\ outputTab' = "console"
    /\ pending' = Issue(pending, Call(op, activeFile, input, "", NoName))
    /\ lastExec' = Event(op, IF isExecuting THEN "guarded" ELSE "started")

\* runCode() and runCodeWithInput(), with the custom input holding `input`
startRun(op, input) ==
    IF isExecuting
    THEN /\ lastExec' = Event(op, "guarded")
         /\ UNCHANGED <<isExecuting, loadingShown, buttonsDisabled, outputTab,
                        pending>>
    ELSE /\ InFlight < MaxPending
         /\ setExecutionState(TRUE)
         /\ outputTab' = "console"
         /\ pending' = Issue(pending, Call(op, activeFile, input, "", NoName))
         /\ lastExec' = Event(op, "started")

runCode ==
    /\ Idle
    /\ startRun("runCode", "")
    /\ notification' = NoNotification
    /\ UNCHANGED <<fileVars, confirmDialog, consoleOutput, testSummary,
                   testResults, scoreDisplay, left>>
    /\ UNCHANGED studio
    /\ lastFileOp' = NoFileOp
    /\ UNCHANGED history

runCodeWithInput(input) ==
    /\ Idle
    /\ startRun("runCodeWithInput", input)
    /\ notification' = NoNotification
    /\ UNCHANGED <<fileVars, confirmDialog, consoleOutput, testSummary,
                   testResults, scoreDisplay, left>>
    /\ UNCHANGED studio
    /\ lastFileOp' = NoFileOp
    /\ UNCHANGED history

\* click on .run-code-btn, click on .run-with-input-btn
ClickRunBtn == runCode

CustomInputs == {"", "1"}

ClickRunWithInputBtn(input) == runCodeWithInput(input)

\* faulty variant of RunSettles: the executing state is restored at the end
\* of the then handler, and not in a finally handler
RunSettlesThenOnly(call, response) ==
    /\ Idle
    /\ BagIn(call, pending)
    /\ call.origin \in {"runCode", "runCodeWithInput"}
    /\ pending' = Settle(pending, call)
    /\ consoleOutput' =
          IF response.kind = "object"
          THEN displayExecutionResult(response)
          ELSE displayExecutionError(<<"Failed to execute code">>)
    /\ IF response.kind = "object"
       THEN setExecutionState(FALSE)
       ELSE UNCHANGED <<isExecuting, loadingShown, buttonsDisabled>>
    /\ notification' = NoNotification
    /\ UNCHANGED <<fileVars, confirmDialog, outputTab, testSummary, testResults,
                   scoreDisplay, lastExec, left>>
    /\ UNCHANGED studio
    /\ lastFileOp' = NoFileOp
    /\ UNCHANGED history

\* a run_code call settles: then / catch / finally of runCode and
\* runCodeWithInput
RunSettles(call, response) ==
    /\ Idle
    /\ BagIn(call, pending)
    /\ call.origin \in {"runCode", "runCodeWithInput"}
    /\ pending' = Settle(pending, call)
    /\ consoleOutput' =
          IF response.kind = "object"
          THEN displayExecutionResult(response)
          ELSE displayExecutionError(<<"Failed to execute code">>)
    /\ setExecutionState(FALSE)
    /\ notification' = NoNotification
    /\ UNCHANGED <<fileVars, confirmDialog, outputTab, testSummary, testResults,
                   scoreDisplay, lastExec, left>>
    /\ UNCHANGED studio
    /\ lastFileOp' = NoFileOp
    /\ UNCHANGED history

\* how a submit_solution call settles
SubmitResponse(kind, success, error, scoreOk, score, max_score, passed_tests, total_tests, hasResults, test_results) ==
    [kind |-> kind, success |-> success, error |-> error, scoreOk |-> scoreOk,
     score |-> score, max_score |-> max_score, passed_tests |-> passed_tests,
     total_tests |-> total_tests, hasResults |-> hasResults,
     test_results |-> test_results]

TestResult(name, passed, points, earned_points, is_public, expected_output, actual_output) ==
    [name |-> name, passed |-> passed, points |-> points,
     earned_points |-> earned_points, is_public |-> is_public,
     expected_output |-> expected_output, actual_output |-> actual_output]

SomeTestResults ==
    << TestResult(<<"t1">>, TRUE, <<"5">>, <<"5">>, TRUE, <<"8">>, <<"8">>),
       TestResult(<<"<", "t2", ">">>, FALSE, <<"5">>, <<"2.5">>, FALSE, <<"1">>,
                  <<>>) >>

SubmitResponses ==
    { SubmitResponse("transport", FALSE, <<>>, FALSE, 0, <<>>, <<>>, <<>>,
                     FALSE, <<>>),
      SubmitResponse("null", FALSE, <<>>, FALSE, 0, <<>>, <<>>, <<>>,
                     FALSE, <<>>),
      SubmitResponse("object", FALSE, <<"Too many submissions">>, FALSE, 0,
                     <<>>, <<>>, <<>>, FALSE, <<>>),
      SubmitResponse("object", FALSE, <<>>, FALSE, 0, <<>>, <<>>, <<>>,
                     FALSE, <<>>),
      SubmitResponse("object", TRUE, <<>>, TRUE, 750, <<"10">>, <<"3">>,
                     <<"4">>, TRUE, SomeTestResults),
      SubmitResponse("object", TRUE, <<>>, FALSE, 0, <<"10">>, <<"0">>,
                     <<"4">>, TRUE, <<>>),
      SubmitResponse("object", TRUE, <<>>, TRUE, 1000, <<"10">>, <<"4">>,
                     <<"4">>, FALSE, <<>>) }

\* displaySubmissionResult: the summary markup
SummaryMarkup(response) ==
    response.passed_tests \o <<"/">> \o response.total_tests
    \o <<" tests passed | Score: ">> \o toFixed1(response.score)
    \o <<"/">> \o response.max_score

\* displaySubmissionResult: the markup of one test result
TestResultMarkup(test) ==
    [cls |-> IF test.passed THEN "passed" ELSE "failed",
     name |-> escapeHtml(test.name),
     status |-> IF test.passed THEN "Passed" ELSE "Failed",
     points |-> test.earned_points \o <<"/">> \o test.points \o <<" pts">>,
     details |-> IF test.is_public
                 THEN << escapeHtml(test.expected_output),
                         escapeHtml(test.actual_output) >>
                 ELSE <<>>]

ResultsMarkup(response) ==
    [i \in 1..Len(response.test_results) |->
        TestResultMarkup(response.test_results[i])]

\* submitSolution() up to its confirm() dialog
submitSolution ==
    /\ Idle
    /\ IF isExecuting
       THEN /\ lastExec' = Event("submitSolution", "guarded")
            /\ confirmDialog' = confirmDialog
       ELSE /\ InFlight < MaxPending
            /\ lastExec' = Event("submitSolution", "confirm")
            /\ confirmDialog' = Confirm("submitSolution", NoName)
    /\ notification' = NoNotification
    /\ UNCHANGED <<fileVars, isExecuting, loadingShown, buttonsDisabled,
                   outputTab, consoleOutput, testSummary, testResults,
                   scoreDisplay, pending, left>>
    /\ UNCHANGED studio
    /\ lastFileOp' = NoFileOp
    /\ UNCHANGED history

\* click on .submit-solution-btn
ClickSubmitBtn == submitSolution

(***************************************************************************)
(* Keyboard shortcuts.  A keydown event is its ctrlKey and metaKey flags   *)
(* and its key; handleKeyboardShortcuts decides whether the default action *)
(* is prevented and which method runs.                                     *)
(***************************************************************************)
Keys == {"s", "r", "Enter"}

KeyEvents == [ctrlKey : BOOLEAN, metaKey : BOOLEAN, key : Keys]

Shortcut(preventDefault, method) == [preventDefault |-> preventDefault, method |-> method]

\* faulty variant of handleKeyboardShortcuts: metaKey is not looked at
handleKeyboardShortcutsCtrlOnly(e) ==
    IF e.ctrlKey /\ e.key = "s" THEN Shortcut(TRUE, "saveCurrentFile")
    ELSE IF e.ctrlKey /\ e.key = "r" THEN Shortcut(TRUE, "runCode")
    ELSE IF e.ctrlKey /\ e.key = "Enter" THEN Shortcut(TRUE, "submitSolution")
    ELSE Shortcut(FALSE, "none")

\* handleKeyboardShortcuts(e): what it does with the event
handleKeyboardShortcuts(e) ==
    IF (e.ctrlKey \/ e.metaKey) /\ e.key = "s"
    THEN Shortcut(TRUE, "saveCurrentFile")
    ELSE IF (e.ctrlKey \/ e.metaKey) /\ e.key = "r"
    THEN Shortcut(TRUE, "runCode")
    ELSE IF (e.ctrlKey \/ e.metaKey) /\ e.key = "Enter"
    THEN Shortcut(TRUE, "submitSolution")
    ELSE Shortcut(FALSE, "none")

\* a keydown event inside the workspace element
KeyDown(e) ==
    IF handleKeyboardShortcuts(e).method = "saveCurrentFile"
    THEN /\ saveCurrentFile("keySave")
         /\ notification' = NoNotification
         /\ UNCHANGED <<fileVars>>
         /\ UNCHANGED <<execVars, confirmDialog>>
         /\ UNCHANGED studio
         /\ lastFileOp' = NoFileOp
         /\ UNCHANGED history
    ELSE IF handleKeyboardShortcuts(e).method = "runCode"
    THEN runCode
    ELSE IF handleKeyboardShortcuts(e).method = "submitSolution"
    THEN submitSolution
    ELSE /\ Idle
         /\ notification' = NoNotification
         /\ UNCHANGED studio
         /\ lastFileOp' = NoFileOp
         /\ UNCHANGED <<fileVars, execVars, confirmDialog, pending, left,
                        history>>

\* Ctrl/Cmd+S, Ctrl/Cmd+R, Ctrl/Cmd+Enter, and the same keys without modifier
KeySave ==
    \E e \in KeyEvents : (e.ctrlKey \/ e.metaKey) /\ e.key = "s" /\ KeyDown(e)

KeyRun ==
    \E e \in KeyEvents : (e.ctrlKey \/ e.metaKey) /\ e.key = "r" /\ KeyDown(e)

KeySubmit ==
    \E e \in KeyEvents : (e.ctrlKey \/ e.metaKey) /\ e.key = "Enter" /\ KeyDown(e)

KeyPlain ==
    \E e \in KeyEvents : ~e.ctrlKey /\ ~e.metaKey /\ KeyDown(e)

\* faulty variant of submitSolutionConfirmed: the answer is not looked at
submitSolutionUnconfirmed(confirmed) ==
    /\ confirmDialog.op = "submitSolution"
    /\ confirmDialog' = NoConfirm
    /\ setExecutionState(TRUE)
    /\ outputTab' = "test-results"
    /\ pending' = Issue(pending,
          Call("submitSolution", activeFile, "", "", NoName))
    /\ lastExec' =
          Event("submitSolution", IF confirmed THEN "started" ELSE "declined")
    /\ notification' = NoNotification
    /\ UNCHANGED <<fileVars, consoleOutput, testSummary, testResults,
                   scoreDisplay, left>>
    /\ UNCHANGED studio
    /\ lastFileOp' = NoFileOp
    /\ UNCHANGED history

\* submitSolution() from the answer to its confirm() dialog
submitSolutionConfirmed(confirmed) ==
    /\ confirmDialog.op = "submitSolution"
    /\ confirmDialog' = NoConfirm
    /\ IF ~confirmed
       THEN /\ lastExec' = Event("submitSolution", "declined")
            /\ UNCHANGED <<isExecuting, loadingShown, buttonsDisabled, outputTab,
                           pending>>
       ELSE /\ setExecutionState(TRUE)
            /\ outputTab' = "test-results"
            /\ pending' = Issue(pending,
                  Call("submitSolution", activeFile, "", "", NoName))
            /\ lastExec' = Event("submitSolution", "started")
    /\ notification' = NoNotification
    /\ UNCHANGED <<fileVars, consoleOutput, testSummary, testResults,
                   scoreDisplay, left>>
    /\ UNCHANGED studio
    /\ lastFileOp' = NoFileOp
    /\ UNCHANGED history

\* faulty variant of SubmitSettles: a failed submission clears the rendered
\* results
SubmitSettlesClearsOnFailure(call, response) ==
    /\ Idle
    /\ BagIn(call, pending)
    /\ call.origin = "submitSolution"
    /\ pending' = Settle(pending, call)
    /\ IF response.kind = "object" /\ response.success
       THEN \* toFixed throws before the summary is written when the score
            \* is no number; forEach throws after it when test_results is
            \* absent; either way the catch handler runs
            /\ testSummary' =
                  IF response.scoreOk THEN SummaryMarkup(response)
                                      ELSE testSummary
            /\ IF response.scoreOk /\ response.hasResults
               THEN /\ testResults' = ResultsMarkup(response)
                    /\ scoreDisplay' = toFixed1(response.score)
                    /\ notification' = Notification("success", ServerMessage)
               ELSE /\ notification' =
                          Notification("error", "Failed to submit solution")
                    /\ UNCHANGED <<testResults, scoreDisplay>>
       ELSE /\ notification' =
                  IF response.kind = "object"
                  THEN Notification("error",
                          IF response.error # <<>> THEN ServerError
                                                   ELSE "Submission failed")
                  ELSE Notification("error", "Failed to submit solution")
            /\ testSummary' = <<>>
            /\ testResults' = <<>>
            /\ UNCHANGED scoreDisplay
    /\ setExecutionState(FALSE)
    /\ UNCHANGED <<fileVars, confirmDialog, outputTab, consoleOutput, lastExec,
                   left>>
    /\ UNCHANGED studio
    /\ lastFileOp' = NoFileOp
    /\ UNCHANGED history

\* the submit_solution call settles: then / catch / finally of submitSolution
SubmitSettles(call, response) ==
    /\ Idle
    /\ BagIn(call, pending)
    /\ call.origin = "submitSolution"
    /\ pending' = Settle(pending, call)
    /\ IF response.kind = "object" /\ response.success
       THEN \* toFixed throws before the summary is written when the score
            \* is no number; forEach throws after it when test_results is
            \* absent; either way the catch handler runs
            /\ testSummary' =
                  IF response.scoreOk THEN SummaryMarkup(response)
                                      ELSE testSummary
            /\ IF response.scoreOk /\ response.hasResults
               THEN /\ testResults' = ResultsMarkup(response)
                    /\ scoreDisplay' = toFixed1(response.score)
                    /\ notification' = Notification("success", ServerMessage)
               ELSE /\ notification' =
                          Notification("error", "Failed to submit solution")
                    /\ UNCHANGED <<testResults, scoreDisplay>>
       ELSE /\ notification' =
                  IF response.kind = "object"
                  THEN Notification("error",
                          IF response.error # <<>> THEN ServerError
                                                   ELSE "Submission failed")
                  ELSE Notification("error", "Failed to submit solution")
            /\ UNCHANGED <<testSummary, testResults, scoreDisplay>>
    /\ setExecutionState(FALSE)
    /\ UNCHANGED <<fileVars, confirmDialog, outputTab, consoleOutput, lastExec,
                   left>>
    /\ UNCHANGED studio
    /\ lastFileOp' = NoFileOp
    /\ UNCHANGED history

OutputTabs == {"console", "test-results", "custom-input"}

\* click on an .output-tab: switchOutputTab(tabName)
ClickOutputTab(tabName) ==
    /\ Idle
    /\ outputTab' = tabName
    /\ notification' = NoNotification
    /\ UNCHANGED <<fileVars, confirmDialog, isExecuting, loadingShown,
                   buttonsDisabled, consoleOutput, testSummary, testResults,
                   scoreDisplay, lastExec, pending, left>>
    /\ UNCHANGED studio
    /\ lastFileOp' = NoFileOp
    /\ UNCHANGED history

\* click on .clear-console-btn: clearConsole()
ClickClearConsole ==
    /\ Idle
    /\ consoleOutput' = << Block("console-message", <<"Console cleared.">>) >>
    /\ notification' = NoNotification
    /\ UNCHANGED <<fileVars, confirmDialog, isExecuting, loadingShown,
                   buttonsDisabled, outputTab, testSummary, testResults,
                   scoreDisplay, lastExec, pending, left>>
    /\ UNCHANGED studio
    /\ lastFileOp' = NoFileOp
    /\ UNCHANGED history

(***************************************************************************)
(* The file workspace: every event of the file tabs, the editor, the       *)
(* modal dialog and the timers, and every way a call in flight settles.    *)
(***************************************************************************)
Next ==
    \/ \E i \in 1..Len(tabs) : ClickFileTab(i)
    \/ \E i \in 1..Len(tabs) : ClickTabClose(i)
    \/ ClickDeleteFileBtn
    \/ ClickNewFileBtn
    \/ ClickRenameFileBtn
    \/ ClickModalCancel
    \/ \E input \in FilenameInputs, language \in Languages :
          ClickModalConfirm(input, language)
    \/ \E newLanguage \in Languages : changeLanguage(newLanguage)
    \/ \E text \in EditTexts : EditorInput(text)
    \/ ClickSaveBtn
    \/ KeySave
    \/ AutoSaveTimeoutFires
    \/ AutoSaveIntervalFires
    \/ \E call \in BagToSet(pending), outcome \in Outcomes :
          SaveSettles(call, outcome)
    \/ \E call \in BagToSet(pending), outcome \in Outcomes :
          CreateSettles(call, outcome)
    \/ \E call \in BagToSet(pending), outcome \in Outcomes :
          RenameSettles(call, outcome)
    \/ \E call \in BagToSet(pending), outcome \in Outcomes :
          DeleteSettles(call, outcome)
    \/ \E confirmed \in BOOLEAN : deleteFileConfirmed(confirmed)

Spec == Init /\ [][Next]_vars

(***************************************************************************)
(* The execution lifecycle: every event that runs or submits, the output   *)
(* panel, and every way a run_code or submit_solution call settles.        *)
(***************************************************************************)
NextExec ==
    \/ ClickRunBtn
    \/ KeyRun
    \/ \E input \in CustomInputs : ClickRunWithInputBtn(input)
    \/ ClickSubmitBtn
    \/ KeySubmit
    \/ \E tabName \in OutputTabs : ClickOutputTab(tabName)
    \/ ClickClearConsole
    \/ \E call \in BagToSet(pending), response \in RunResponses :
          RunSettles(call, response)
    \/ \E call \in BagToSet(pending), response \in SubmitResponses :
          SubmitSettles(call, response)
    \/ \E confirmed \in BOOLEAN : submitSolutionConfirmed(confirmed)

SpecExec == Init /\ [][NextExec]_vars

\* every call in flight settles: the host runtime answers or fails each call
ExecSettles ==
    \/ \E call \in BagToSet(pending), response \in RunResponses :
          RunSettles(call, response)
    \/ \E call \in BagToSet(pending), response \in SubmitResponses :
          SubmitSettles(call, response)

SpecExecLive == SpecExec /\ WF_vars(ExecSettles)

(***************************************************************************)
(* The editing session: the editor being loaded, edits, file switches,     *)
(* saves by button, shortcut and timer, and every way a save settles.      *)
(* The editor library may still be loading when the constructor returns.   *)
(***************************************************************************)
InitSession == InitWith({"monaco", "none"}, MaxSessionActions)

NextSession ==
    \/ MonacoLoaded
    \/ MonacoLoadFailed
    \/ \E i \in 1..Len(tabs) : ClickFileTab(i)
    \/ \E text \in EditTexts : EditorInput(text)
    \/ ClickSaveBtn
    \/ KeySave
    \/ AutoSaveTimeoutFires
    \/ AutoSaveIntervalFires
    \/ \E call \in BagToSet(pending), outcome \in Outcomes :
          SaveSettles(call, outcome)

SpecSession == InitSession /\ [][NextSession]_vars

(***************************************************************************)
(* File creation and tab switching: the new-file dialog, the file tabs,    *)
(* and every way a create_file or save_file call settles.                  *)
(***************************************************************************)
InitTabs == InitWith({"monaco"}, MaxTabActions)

NextTabs ==
    \/ \E i \in 1..Len(tabs) : ClickFileTab(i)
    \/ ClickNewFileBtn
    \/ ClickModalCancel
    \/ \E input \in FilenameInputs, language \in Languages :
          ClickModalConfirm(input, language)
    \/ \E call \in BagToSet(pending), outcome \in Outcomes :
          SaveSettles(call, outcome)
    \/ \E call \in BagToSet(pending), outcome \in Outcomes :
          CreateSettles(call, outcome)

SpecTabs == InitTabs /\ [][NextTabs]_vars

(***************************************************************************)
(* The two operations that ask with confirm(): deleting a file and         *)
(* submitting, with a run in progress or not and any output tab shown.     *)
(***************************************************************************)
NextConfirm ==
    \/ \E i \in 1..Len(tabs) : ClickTabClose(i)
    \/ ClickDeleteFileBtn
    \/ \E confirmed \in BOOLEAN : deleteFileConfirmed(confirmed)
    \/ \E call \in BagToSet(pending), outcome \in Outcomes :
          DeleteSettles(call, outcome)
    \/ ClickRunBtn
    \/ \E call \in BagToSet(pending), response \in RunResponses :
          RunSettles(call, response)
    \/ ClickSubmitBtn
    \/ KeySubmit
    \/ \E confirmed \in BOOLEAN : submitSolutionConfirmed(confirmed)
    \/ \E call \in BagToSet(pending), response \in SubmitResponses :
          SubmitSettles(call, response)
    \/ \E tabName \in OutputTabs : ClickOutputTab(tabName)

SpecConfirm == Init /\ [][NextConfirm]_vars

(***************************************************************************)
(* The save, run and submit buttons and the keyboard.                      *)
(***************************************************************************)
NextKeys ==
    \/ ClickSaveBtn
    \/ ClickRunBtn
    \/ ClickSubmitBtn
    \/ KeySave
    \/ KeyRun
    \/ KeySubmit
    \/ KeyPlain
    \/ \E confirmed \in BOOLEAN : submitSolutionConfirmed(confirmed)
    \/ \E call \in BagToSet(pending), outcome \in Outcomes :
          SaveSettles(call, outcome)
    \/ \E call \in BagToSet(pending), response \in RunResponses :
          RunSettles(call, response)
    \/ \E call \in BagToSet(pending), response \in SubmitResponses :
          SubmitSettles(call, response)

SpecKeys == Init /\ [][NextKeys]_vars

(***************************************************************************)
(* The Studio Configuration Component.  A test-case block is the number N  *)
(* of its default identifier test_N, the index in the name attributes of   *)
(* its inputs (test_cases[index][...]), the number in its title and its    *)
(* expected-output field; a language block is the number N of its key      *)
(* language_N, which is also what its name attributes embed                *)
(* (supported_languages[language_N][...]), and the number in its title.    *)
(* The other inputs of a block are created with non-empty values.          *)
(***************************************************************************)
\* a form field: its data-validate rules, its value, its classes and the
\* .validation-feedback elements next to it
Field(validate, value) ==
    [validate |-> validate, value |-> value, classes |-> {}, feedback |-> <<>>]

NoField == <<>>

TestCase(id, index, title, expected) ==
    [id |-> id, index |-> index, title |-> title, expected |-> expected]

LanguageItem(key, title) == [key |-> key, title |-> title]

\* the values a field may hold, as text atoms: "1" a digit, "a" a letter,
\* "http://" that prefix
FieldValues == { <<>>, <<" ">>, <<"a">>, <<"1">>, <<"http://", "a">> }

\* the rule lists a field may declare in data-validate
FieldRules ==
    { {}, {"required"}, {"number"}, {"required", "number"}, {"url"},
      {"number", "url"} }

\* isNaN(Number(value)) is false
IsNumber(value) == value # <<>> /\ \A j \in 1..Len(value) : value[j] = "1"

\* /^https?:\/\/.+/i matches
IsUrl(value) == Len(value) >= 2 /\ value[1] = "http://"

\* faulty variant of validateField: the feedback of an earlier run stays
validateFieldKeepsFeedback(field) ==
    LET value == Trim(field.value)
        failsRequired == "required" \in field.validate /\ value = <<>>
        failsNumber == /\ "number" \in field.validate
                       /\ value # <<>>
                       /\ ~IsNumber(value)
        failsUrl == /\ "url" \in field.validate
                    /\ value # <<>>
                    /\ ~IsUrl(value)
        isValid == ~failsRequired /\ ~failsNumber /\ ~failsUrl
        message == IF failsUrl
                   THEN "Please enter a valid URL starting with http:// or https://"
                   ELSE IF failsNumber THEN "Please enter a valid number"
                   ELSE "This field is required"
        cleared == field.classes \ {"error", "warning"}
    IN  [field |->
            [field EXCEPT
               !.feedback = IF isValid THEN field.feedback
                            ELSE Append(field.feedback, message),
               !.classes =
                  IF ~isValid THEN cleared \cup {"error"}
                  ELSE IF "required" \in field.validate /\ value # <<>>
                  THEN cleared \cup {"success"}
                  ELSE cleared],
         isValid |-> isValid]

\* faulty variant of validateField: the value is tested as typed
validateFieldUntrimmed(field) ==
    LET value == field.value
        failsRequired == "required" \in field.validate /\ value = <<>>
        failsNumber == /\ "number" \in field.validate
                       /\ value # <<>>
                       /\ ~IsNumber(value)
        failsUrl == /\ "url" \in field.validate
                    /\ value # <<>>
                    /\ ~IsUrl(value)
        isValid == ~failsRequired /\ ~failsNumber /\ ~failsUrl
        message == IF failsUrl
                   THEN "Please enter a valid URL starting with http:// or https://"
                   ELSE IF failsNumber THEN "Please enter a valid number"
                   ELSE "This field is required"
        cleared == field.classes \ {"error", "warning"}
    IN  [field |->
            [field EXCEPT
               !.feedback = IF isValid THEN <<>> ELSE <<message>>,
               !.classes =
                  IF ~isValid THEN cleared \cup {"error"}
                  ELSE IF "required" \in field.validate /\ value # <<>>
                  THEN cleared \cup {"success"}
                  ELSE cleared],
         isValid |-> isValid]

\* validateField($field): the field as it is left, and the value returned
validateField(field) ==
    LET value == Trim(field.value)
        failsRequired == "required" \in field.validate /\ value = <<>>
        failsNumber == /\ "number" \in field.validate
                       /\ value # <<>>
                       /\ ~IsNumber(value)
        failsUrl == /\ "url" \in field.validate
                    /\ value # <<>>
                    /\ ~IsUrl(value)
        isValid == ~failsRequired /\ ~failsNumber /\ ~failsUrl
        message == IF failsUrl
                   THEN "Please enter a valid URL starting with http:// or https://"
                   ELSE IF failsNumber THEN "Please enter a valid number"
                   ELSE "This field is required"
        cleared == field.classes \ {"error", "warning"}
    IN  [field |->
            [field EXCEPT
               !.feedback = IF isValid THEN <<>> ELSE <<message>>,
               !.classes =
                  IF ~isValid THEN cleared \cup {"error"}
                  ELSE IF "required" \in field.validate /\ value # <<>>
                  THEN cleared \cup {"success"}
                  ELSE cleared],
         isValid |-> isValid]

\* createTestCaseHtml(testId, index), createLanguageHtml(languageKey, index)
createTestCaseHtml(testId, index) ==
    TestCase(testId, index - 1, index, Field({"required"}, <<>>))

createLanguageHtml(languageKey, index) == LanguageItem(languageKey, index)

\* faulty variant of updateTestCaseIndexes: the names are left as they are
updateTestCaseIndexesTitlesOnly(tests) ==
    [k \in 1..Len(tests) |-> [tests[k] EXCEPT !.title = k]]

\* updateTestCaseIndexes(): block k (from 0) gets the title k + 1 and the
\* first [digits] of each input name replaced by [k]
updateTestCaseIndexes(tests) ==
    [k \in 1..Len(tests) |-> [tests[k] EXCEPT !.title = k, !.index = k - 1]]

\* updateLanguageIndexes(): block k (from 0) gets the title k + 1
updateLanguageIndexes(langs) ==
    [k \in 1..Len(langs) |-> [langs[k] EXCEPT !.title = k]]

\* validateForm(): every field declaring `required` is validated, the two
\* structure checks are made and the save button is set
validateForm(form) ==
    LET fieldChecked == form.field # NoField /\ "required" \in form.field.validate
        isValid ==
           /\ fieldChecked => validateField(form.field).isValid
           /\ \A k \in 1..Len(form.tests) :
                 validateField(form.tests[k].expected).isValid
           /\ Len(form.tests) # 0
           /\ Len(form.langs) # 0
    IN  [form EXCEPT
           !.field = IF fieldChecked THEN validateField(form.field).field
                                     ELSE form.field,
           !.tests = [k \in 1..Len(form.tests) |->
                        [form.tests[k] EXCEPT
                           !.expected = validateField(form.tests[k].expected).field]],
           !.saveDisabled = ~isValid,
           !.returned = IF isValid THEN "true" ELSE "false"]

\* initializeValidation(): every field with a data-validate attribute is
\* validated; the save button is not touched
initializeValidation(form) ==
    [form EXCEPT
       !.field = IF form.field.validate # {}
                 THEN validateField(form.field).field
                 ELSE form.field,
       !.tests = [k \in 1..Len(form.tests) |->
                    [form.tests[k] EXCEPT
                       !.expected = validateField(form.tests[k].expected).field]]]

\* the form as the constructor leaves it: one test case and one language,
\* as addTestCase and addLanguage create them in an empty list, with an
\* expected output filled in, and one standalone field
InitialForms ==
    { initializeValidation(
         StudioForm(<< TestCase(1, 0, 1, Field({"required"}, <<"a">>)) >>,
                    << LanguageItem(1, 1) >>,
                    Field(rules, value), "none", FALSE, "none")) :
      rules \in FieldRules, value \in FieldValues }

InitStudio ==
    /\ WorkspaceInit({"monaco"}, 0)
    /\ Len(studentFiles) = 1
    /\ studio \in InitialForms

\* click on .add-test-case-btn: addTestCase()
addTestCase ==
    /\ Len(studio.tests) < MaxBlocks
    /\ LET testCaseCount == Len(studio.tests)
           appended == Append(studio.tests,
                          createTestCaseHtml(testCaseCount + 1, testCaseCount + 1))
       IN  studio' = validateForm(
              [studio EXCEPT !.tests = updateTestCaseIndexes(appended),
                             !.note = "none"])
    /\ UNCHANGED workspaceVars

\* faulty variant of removeTestCase: no test for the last block
removeTestCaseUnguarded(i) ==
    /\ i \in 1..Len(studio.tests)
    /\ studio' = validateForm(
          [studio EXCEPT
             !.tests = updateTestCaseIndexes(Without(studio.tests, i)),
             !.note = "none"])
    /\ UNCHANGED workspaceVars

\* click on the .remove-test-case-btn of the i-th block: removeTestCase()
removeTestCase(i) ==
    /\ i \in 1..Len(studio.tests)
    /\ IF Len(studio.tests) <= 1
       THEN studio' = [studio EXCEPT
                         !.note = "At least one test case is required",
                         !.returned = "none"]
       ELSE studio' = validateForm(
               [studio EXCEPT
                  !.tests = updateTestCaseIndexes(Without(studio.tests, i)),
                  !.note = "none"])
    /\ UNCHANGED workspaceVars

\* click on .add-language-btn: addLanguage()
addLanguage ==
    /\ Len(studio.langs) < MaxBlocks
    /\ LET languageCount == Len(studio.langs)
           appended == Append(studio.langs,
                          createLanguageHtml(languageCount + 1, languageCount + 1))
       IN  studio' = validateForm(
              [studio EXCEPT !.langs = updateLanguageIndexes(appended),
                             !.note = "none"])
    /\ UNCHANGED workspaceVars

\* click on the .remove-language-btn of the i-th block: removeLanguage()
removeLanguage(i) ==
    /\ i \in 1..Len(studio.langs)
    /\ IF Len(studio.langs) <= 1
       THEN studio' = [studio EXCEPT
                         !.note = "At least one programming language must be supported",
                         !.returned = "none"]
       ELSE studio' = validateForm(
               [studio EXCEPT
                  !.langs = updateLanguageIndexes(Without(studio.langs, i)),
                  !.note = "none"])
    /\ UNCHANGED workspaceVars

\* input or change event on the standalone field, which now holds value:
\* validateForm()
FieldInput(value) ==
    /\ value # studio.field.value
    /\ studio' = validateForm(
          [studio EXCEPT !.field.value = value, !.note = "none"])
    /\ UNCHANGED workspaceVars

\* blur event on the standalone field: validateField(), when the field has
\* a data-validate attribute
FieldBlur ==
    /\ studio.field.validate # {}
    /\ studio' =
          [studio EXCEPT
             !.field = validateField(studio.field).field,
             !.returned = IF validateField(studio.field).isValid
                          THEN "true" ELSE "false",
             !.note = "none"]
    /\ UNCHANGED workspaceVars

NextStudio ==
    \/ addTestCase
    \/ \E i \in 1..Len(studio.tests) : removeTestCase(i)
    \/ addLanguage
    \/ \E i \in 1..Len(studio.langs) : removeLanguage(i)
    \/ \E value \in FieldValues : FieldInput(value)
    \/ FieldBlur

SpecStudio == InitStudio /\ [][NextStudio]_vars

(***************************************************************************)
(* Properties of the execution lifecycle.                                  *)
(***************************************************************************)
\* the run_code and submit_solution calls in flight
ExecCalls ==
    { c \in BagToSet(pending) :
        c.origin \in {"runCode", "runCodeWithInput", "submitSolution"} }

\* the state a guarded entry point must leave alone
GuardedState ==
    <<fileVars, isExecuting, loadingShown, buttonsDisabled, outputTab,
      consoleOutput, testSummary, testResults, scoreDisplay, pending,
      confirmDialog>>

\* C1: at most one run_code / submit_solution call is in flight at any time,
\* and runCode, runCodeWithInput and submitSolution invoked while isExecuting
\* is true issue no handler call and change no state.
C1_SingleExecutionInFlight ==
    /\ [](/\ Cardinality(ExecCalls) <= 1
          /\ \A c \in ExecCalls : CopiesIn(c, pending) = 1)
    /\ [][ (/\ isExecuting
            /\ \/ runCode
               \/ \E input \in CustomInputs : runCodeWithInput(input)
               \/ submitSolution)
           => UNCHANGED GuardedState ]_vars

\* an entry point was invoked while a call was in flight
C1_Witness ==
    /\ lastExec.branch = "guarded"
    /\ isExecuting
    /\ Cardinality(ExecCalls) = 1

\* C2: once the workspace is executing it eventually stops executing, however
\* the request settles; isExecuting becomes true only when a request is
\* issued from the idle state and false only when that request has settled.
C2_ExecutionEventuallyIdle ==
    /\ isExecuting ~> ~isExecuting
    /\ [][ /\ (~isExecuting /\ isExecuting')
              => (ExecCalls = {} /\ Cardinality(ExecCalls') = 1)
           /\ (isExecuting /\ ~isExecuting')
              => (Cardinality(ExecCalls) = 1 /\ ExecCalls' = {}) ]_vars

\* a run whose call was rejected, or whose response could not be rendered,
\* has been handled and the workspace is idle again
C2_Witness ==
    /\ ~isExecuting
    /\ lastExec.branch = "started"
    /\ pending = EmptyBag
    /\ consoleOutput = displayExecutionError(<<"Failed to execute code">>)

\* C3: the controls are disabled and the loading indicator is shown exactly
\* when isExecuting is true, and handling a failed run_code call (success =
\* false, or a transport failure) leaves isExecuting false, the controls
\* enabled and the loading indicator hidden.
C3_ControlsFollowExecuting ==
    /\ [](/\ buttonsDisabled = isExecuting
          /\ loadingShown = isExecuting)
    /\ [][ \A call \in BagToSet(pending), response \in RunResponses :
              (~response.success /\ RunSettles(call, response))
              => (~isExecuting' /\ ~buttonsDisabled' /\ ~loadingShown') ]_vars

\* a run_code response with success = false has been handled
C3_Witness ==
    /\ lastExec.branch = "started"
    /\ consoleOutput = << Block("error-line", <<"Compilation error">>) >>
    /\ ~isExecuting
    /\ ~buttonsDisabled
    /\ ~loadingShown

(***************************************************************************)
(* Properties of the file workspace.                                       *)
(***************************************************************************)
\* the names a tab's close button or the delete button can pass to deleteFile
DeletableNames ==
    { tabs[i].filename : i \in 1..Len(tabs) } \cup { activeFile }

\* the local state a rejected or failed file operation must leave alone
LocalFiles == <<studentFiles, tabs, activeFile>>

\* C4: the local file map holds at least one file in every reachable state.
C4_FileMapNeverEmpty ==
    \E i \in 1..Len(studentFiles) : studentFiles[i].def

\* C5: deleteFile invoked when the file map holds one file or none requests
\* no confirmation, issues no handler call, leaves the file map, the tabs and
\* the active file unchanged, and shows an error notification.
C5_LastFileDeleteRejected ==
    [][ \A filename \in DeletableNames :
           (Len(studentFiles) <= 1 /\ deleteFile(filename))
           => /\ confirmDialog' = NoConfirm
              /\ pending' = pending
              /\ UNCHANGED LocalFiles
              /\ notification'.type = "error" ]_vars

\* deleteFile has rejected the deletion of the only file
C5_Witness ==
    /\ notification = Notification("error", "Cannot delete the last file")
    /\ Len(studentFiles) = 1
    /\ Len(tabs) = 1
    /\ confirmDialog = NoConfirm

\* C6: createNewFile with a name that is empty after trimming, or that is
\* the name of a file in the file map, issues no handler call, leaves the
\* file map, the tabs and the active file unchanged, and shows an error
\* notification.
C6_InvalidCreateRejected ==
    [][ \A input \in FilenameInputs, language \in Languages :
           (/\ currentModal = "new-file"
            /\ \/ Trim(input) = <<>>
               \/ \E i \in 1..Len(studentFiles) :
                     studentFiles[i].def /\ studentFiles[i].name = Trim(input)
            /\ ClickModalConfirm(input, language))
           => /\ pending' = pending
              /\ UNCHANGED LocalFiles
              /\ UNCHANGED <<editorContent, currentModal>>
              /\ notification'.type = "error" ]_vars

\* createNewFile has rejected the name of an existing file
C6_Witness ==
    /\ notification = Notification("error", "File already exists")
    /\ currentModal = "new-file"

\* C7: createNewFile with a valid name changes nothing locally when it
\* issues the call; when the call fails (reported by the handler, or in
\* transport) the file map, the tabs, the active file and the editor content
\* are unchanged; when it succeeds the file is in the map, its tab is added
\* and it is the active file.
C7_CreateRegistersOnSuccessOnly ==
    [][ /\ \A input \in FilenameInputs, language \in Languages :
              (currentModal = "new-file" /\ ClickModalConfirm(input, language))
              => UNCHANGED <<LocalFiles, editorContent>>
        /\ \A call \in BagToSet(pending) :
              /\ \A outcome \in Outcomes \ {"ok"} :
                    CreateSettles(call, outcome)
                    => UNCHANGED <<LocalFiles, editorContent>>
              /\ CreateSettles(call, "ok")
                 => /\ HasFile(studentFiles', call.filename)
                    /\ Len(tabs') = Len(tabs) + 1
                    /\ tabs'[Len(tabs')].filename = call.filename
                    /\ activeFile' = call.filename ]_vars

\* a create call has failed and the file is not registered
C7_Witness ==
    /\ notification = Notification("error", "Failed to create file")
    /\ ~HasFile(studentFiles, <<"c">>)
    /\ TabIndex(tabs, <<"c">>) = 0
    /\ activeFile = <<"a">>

\* C8: renameCurrentFile with a valid new name changes nothing locally when
\* it issues the call; when the call fails (reported by the handler, or in
\* transport) the file map, the tabs and the active file are unchanged; when
\* it succeeds the new name is the active file.
C8_RenameAppliesOnSuccessOnly ==
    [][ /\ \A input \in FilenameInputs, language \in Languages :
              (currentModal = "rename-file"
                  /\ ClickModalConfirm(input, language))
              => UNCHANGED LocalFiles
        /\ \A call \in BagToSet(pending) :
              /\ \A outcome \in Outcomes \ {"ok"} :
                    RenameSettles(call, outcome) => UNCHANGED LocalFiles
              /\ RenameSettles(call, "ok")
                 => /\ activeFile' = call.newname
                    /\ TabIndex(tabs, activeFile) # 0
                       => tabs'[TabIndex(tabs, activeFile)].label
                             = call.newname ]_vars

\* a rename call has failed and the file has kept its name and its content
C8_Witness ==
    /\ notification = Notification("error", "Failed to rename file")
    /\ activeFile = <<"a">>
    /\ GetFile(studentFiles, <<"a">>) = FileEntry(<<"a">>, "A0", "python")
    /\ ~HasFile(studentFiles, <<"c">>)

\* C9: renameCurrentFile issues no handler call and leaves the file map and
\* the active file unchanged when the new name is empty after trimming
\* (error), is the active file's name (the dialog is closed, nothing is
\* notified), or is the name of another file in the map (error).
C9_InvalidRenameRejected ==
    [][ \A input \in FilenameInputs, language \in Languages :
           LET name == Trim(input)
               taken == \E i \in 1..Len(studentFiles) :
                           studentFiles[i].def /\ studentFiles[i].name = name
           IN  (/\ currentModal = "rename-file"
                /\ name = <<>> \/ name = activeFile \/ taken
                /\ ClickModalConfirm(input, language))
               => /\ pending' = pending
                  /\ UNCHANGED LocalFiles
                  /\ IF name # <<>> /\ name = activeFile
                     THEN currentModal' = "null" /\ notification' = NoNotification
                     ELSE UNCHANGED currentModal /\ notification'.type = "error"
      ]_vars

\* renameCurrentFile has rejected the name of another file
C9_Witness ==
    /\ notification =
          Notification("error", "File with that name already exists")
    /\ currentModal = "rename-file"

\* C10: when a delete_file call fails (reported by the handler, or in
\* transport) the file map, the tabs, the active file and the editor content
\* are unchanged.
C10_FailedDeleteChangesNothing ==
    [][ \A call \in BagToSet(pending), outcome \in Outcomes \ {"ok"} :
           DeleteSettles(call, outcome)
           => UNCHANGED <<LocalFiles, editorContent>> ]_vars

\* a confirmed delete has failed and both files and both tabs are in place
C10_Witness ==
    /\ notification = Notification("error", "Failed to delete file")
    /\ Len(studentFiles) = 2
    /\ \A i \in 1..Len(studentFiles) : studentFiles[i].def
    /\ Len(tabs) = 2
    /\ pending = EmptyBag

\* the file names of the tabs, in document order
TabNames(ts) == [i \in 1..Len(ts) |-> ts[i].filename]

\* the text the editor shows for a stored file: its content, or the
\* language's template when it has no content
ShownFor(entry) ==
    IF entry.content # "" THEN entry.content
                          ELSE getTemplateForLanguage(entry.language)

C12_SwitchToActiveFileIsNoOp ==
    [][ \A i \in 1..Len(tabs) :
           (tabs[i].filename = activeFile /\ ClickFileTab(i))
           => /\ pending' = pending
              /\ UNCHANGED <<activeFile, currentLanguage, editorContent, tabs,
                             studentFiles>> ]_vars

\* the tab of the active file has been clicked, and nothing else was done
C12_Witness ==
    /\ lastFileOp = Event("switchToFile", "same")
    /\ pending = EmptyBag
    /\ left = MaxActions
    /\ activeFile = <<"a">>
    /\ Len(tabs) = 2

\* what holds when switchToFile(name, language) has switched: the active
\* file is name, the current language is language, the editor shows the
\* stored content of name (the template of language when there is none),
\* and the tab of name is the one tab carrying the class `active`
Switched(name, language) ==
    /\ activeFile' = name
    /\ currentLanguage' = language
    /\ editorContent' =
          IF \E i \in 1..Len(studentFiles') :
                /\ studentFiles'[i].name = name
                /\ studentFiles'[i].content # ""
          THEN LET i == CHOOSE i \in 1..Len(studentFiles') :
                           studentFiles'[i].name = name
               IN  studentFiles'[i].content
          ELSE getTemplateForLanguage(language)
    /\ Cardinality({ i \in 1..Len(tabs') : tabs'[i].active }) = 1
    /\ \A i \in 1..Len(tabs') : tabs'[i].active <=> tabs'[i].filename = name

\* C13: when switchToFile(name, language) is invoked with a name that is not
\* the active file (from a tab click, after a file was created, after the
\* active file was deleted), then on its return the active file is name, the
\* current language is language, the editor content is the stored content of
\* name or the template of language, and exactly one tab, the tab of name,
\* carries the class `active`.
C13_SwitchShowsTargetFile ==
    [][ /\ \A i \in 1..Len(tabs) :
              (tabs[i].filename # activeFile /\ ClickFileTab(i))
              => Switched(tabs[i].filename, tabs[i].language)
        /\ \A call \in BagToSet(pending) :
              /\ (call.filename # activeFile /\ CreateSettles(call, "ok"))
                 => Switched(call.filename, call.language)
              /\ (/\ DeleteSettles(call, "ok")
                  /\ lastFileOp' = Event("switchToFile", "switched"))
                 => Switched(studentFiles'[1].name, studentFiles'[1].language)
      ]_vars

\* the tab of the second file has been clicked: it is the active file, the
\* editor shows its stored content and its tab alone is active
C13_Witness ==
    /\ lastFileOp = Event("switchToFile", "switched")
    /\ activeFile = <<"b">>
    /\ currentLanguage = "java"
    /\ editorContent = "B0"
    /\ Len(tabs) = 2
    /\ ~tabs[1].active
    /\ tabs[2].active
    /\ notification = NoNotification

(***************************************************************************)
(* Properties of the editing session.                                      *)
(***************************************************************************)
\* the text the editor shows for a text: the text, or the template of the
\* language when it is empty
ShownText(text, language) ==
    IF text # "" THEN text ELSE getTemplateForLanguage(language)

\* C14: after a switch to a file F the editor shows the text the user last
\* had in the editor for F (the template of the language when that text is
\* empty), never an older text of F and never the text of another file.
C14_SwitchShowsLatestContent ==
    (/\ lastFileOp = Event("switchToFile", "switched")
     /\ editorMode # "none"
     /\ activeFile \in DOMAIN history.edited)
    => editorContent = ShownText(history.edited[activeFile], currentLanguage)

\* C15: every edit cancels the pending debounce timeout and arms one, without
\* issuing a call; when the timeout fires (no edit came in between) it issues
\* exactly one save_file call, carrying the active file's name and the text
\* the editor holds then, and no timeout is left pending.
C15_DebouncedAutoSave ==
    [][ /\ \A text \in EditTexts :
              EditorInput(text)
              => (autoSaveTimeout' = 1 /\ pending' = pending)
        /\ AutoSaveTimeoutFires
           => /\ autoSaveTimeout' = 0
              /\ pending' =
                    pending (+) SetToBag({ [origin |-> "save",
                                            filename |-> activeFile,
                                            content |-> editorContent,
                                            language |-> currentLanguage,
                                            newname |-> <<>>] })
              /\ UNCHANGED <<editorContent, activeFile, studentFiles>> ]_vars

\* two edits were made and then the timeout fired: one save_file call is in
\* flight, with the final text
C15_Witness ==
    /\ autoSaveTimeout = 0
    /\ left = 0
    /\ activeFile = <<"a">>
    /\ editorContent = ""
    /\ history.edited[<<"a">>] = ""
    /\ BagCardinality(pending) = 1
    /\ \A c \in BagToSet(pending) :
          c.origin = "save" /\ c.filename = <<"a">> /\ c.content = ""

\* C16: in every reachable state at most one debounce timeout is pending and
\* at most one auto-save interval is active.
C16_TimersNeverStack ==
    /\ autoSaveTimeout <= 1
    /\ autoSaveInterval <= 1

\* the editor was created, and a second edit came while the timeout armed by
\* the first was pending
C16_Witness ==
    /\ editorMode = "monaco"
    /\ autoSaveInterval = 1
    /\ autoSaveTimeout = 1
    /\ left = MaxSessionActions - 2
    /\ pending = EmptyBag
    /\ notification = NoNotification
    /\ lastFileOp = NoFileOp
    /\ tabs[1].modified
    /\ studentFiles[1].content = "A0"
    /\ editorContent = "x"

\* C17: once the editor has been set up, as the editor widget or as the
\* plain text input shown after a load failure, an auto-save interval is
\* active.
C17_IntervalActiveOnceInitialized ==
    editorMode \in {"monaco", "fallback"} => autoSaveInterval = 1

\* C18: a file whose latest text in the editor is none of the texts the
\* server has acknowledged for it (the initial snapshot, or a save_file
\* request naming the file and answered success) carries its modified mark.
C18_UnsavedEditsKeepDirtyMark ==
    \A i \in 1..Len(tabs) :
       (/\ tabs[i].filename \in DOMAIN history.edited
        /\ history.edited[tabs[i].filename]
              \notin history.acked[tabs[i].filename])
       => tabs[i].modified

\* C19: a save_file call that settles with success = false or with a
\* transport failure changes no tab (so no modified mark), neither the
\* editor's text nor the local file map nor the active file, and shows an
\* error notification.
C19_FailedSaveChangesNothing ==
    [][ \A call \in BagToSet(pending), outcome \in Outcomes \ {"ok"} :
           SaveSettles(call, outcome)
           => /\ tabs' = tabs
              /\ editorContent' = editorContent
              /\ studentFiles' = studentFiles
              /\ activeFile' = activeFile
              /\ notification'.type = "error" ]_vars

\* the save of an edited file has failed without a message from the server:
\* the mark, the text and the stored content are as they were
C19_Witness ==
    /\ notification = Notification("error", "Failed to save file")
    /\ pending = EmptyBag
    /\ activeFile = <<"a">>
    /\ tabs[1].modified
    /\ editorContent = "x"
    /\ studentFiles[1].content = "A0"

\* the local state a successful save of the active file with the editor's
\* text leaves: the entry holds that text and the current language, and the
\* file's tab carries no modified mark
SavedState ==
    /\ HasFile(studentFiles, activeFile)
    /\ GetFile(studentFiles, activeFile).content = getCurrentEditorContent
    /\ GetFile(studentFiles, activeFile).language = currentLanguage
    /\ TabIndex(tabs, activeFile) # 0
       => ~tabs[TabIndex(tabs, activeFile)].modified

\* C20: a successful response to a save of the active file carrying the
\* editor's current text leaves the saved state; when the state is already
\* the saved state (an earlier response for the same save has been applied)
\* it changes neither the file map nor the tabs nor the active file nor the
\* editor's text.
C20_SaveIdempotent ==
    [][ \A call \in BagToSet(pending) :
           (SaveSettles(call, "ok") /\ call = SaveCall)
           => /\ SavedState'
              /\ SavedState
                 => UNCHANGED <<studentFiles, tabs, activeFile,
                                currentLanguage, editorContent>> ]_vars

\* the file was edited and saved twice; the first response has been applied
\* and the second, identical call is in flight
C20_Witness ==
    /\ editorMode = "monaco"
    /\ activeFile = <<"a">>
    /\ editorContent = "x"
    /\ studentFiles[1].content = "x"
    /\ SavedState
    /\ BagIn(SaveCall, pending)
    /\ history.acked[<<"a">>] = {"A0", "x"}

(***************************************************************************)
(* Properties of the language selector, the confirmations, the output      *)
(* panel and the keyboard shortcuts.                                       *)
(***************************************************************************)
\* C21: changeLanguage(newLanguage) with the current language issues no call
\* and changes nothing of the workspace; with another language it sets the
\* current language, the language of the active file's entry and the
\* data-language of the active file's tab to newLanguage, changes no other
\* entry and no other tab, leaves the active file and the editor's text as
\* they are, and issues exactly one save_file call with the active file's
\* name, the editor's text and newLanguage.
C21_ChangeLanguage ==
    [][ \A newLanguage \in Languages :
           changeLanguage(newLanguage)
           => IF newLanguage = currentLanguage
              THEN UNCHANGED <<fileVars, execVars, pending>>
              ELSE /\ currentLanguage' = newLanguage
                   /\ UNCHANGED <<activeFile, editorContent>>
                   /\ Len(studentFiles') = Len(studentFiles)
                   /\ \A i \in 1..Len(studentFiles) :
                         IF studentFiles[i].name = activeFile
                         THEN studentFiles'[i] =
                                 [studentFiles[i] EXCEPT !.language = newLanguage]
                         ELSE studentFiles'[i] = studentFiles[i]
                   /\ Len(tabs') = Len(tabs)
                   /\ \A i \in 1..Len(tabs) :
                         IF i = TabIndex(tabs, activeFile)
                         THEN tabs'[i] = [tabs[i] EXCEPT !.language = newLanguage]
                         ELSE tabs'[i] = tabs[i]
                   /\ pending' =
                         pending (+) SetToBag({ [origin |-> "save",
                                                 filename |-> activeFile,
                                                 content |-> editorContent,
                                                 language |-> newLanguage,
                                                 newname |-> <<>>] }) ]_vars

\* the language of the one file a was changed from python to java: the
\* entry and the tab say java and one save_file call is in flight
C21_Witness ==
    /\ Len(studentFiles) = 1
    /\ activeFile = <<"a">>
    /\ currentLanguage = "java"
    /\ studentFiles[1].language = "java"
    /\ tabs[1].language = "java"
    /\ editorContent = "A0"
    /\ left = MaxActions - 1
    /\ pending = SetToBag({ [origin |-> "save", filename |-> <<"a">>,
                             content |-> "A0", language |-> "java",
                             newname |-> <<>>] })

\* C22: when the user declines the confirm() of submitSolution or of
\* deleteFile, no call is issued and nothing of the workspace changes: the
\* file map, the tabs, the active file, the editor, the execution state and
\* the output panel are as before; after a declined submit isExecuting is
\* false.
C22_DeclinedConfirmChangesNothing ==
    [][ /\ (deleteFileConfirmed(FALSE) \/ submitSolutionConfirmed(FALSE))
           => UNCHANGED <<fileVars, pending, isExecuting, loadingShown,
                          buttonsDisabled, outputTab, consoleOutput,
                          testSummary, testResults, scoreDisplay>>
        /\ submitSolutionConfirmed(FALSE) => ~isExecuting' ]_vars

\* a submit was declined while the console tab was shown: no call is in
\* flight, nothing is executing and the console tab is still shown
C22_Witness ==
    /\ lastExec = Event("submitSolution", "declined")
    /\ confirmDialog = NoConfirm
    /\ pending = EmptyBag
    /\ ~isExecuting
    /\ ~buttonsDisabled
    /\ outputTab = "console"

\* the submit_solution responses with success = true that carry every field
\* of the handler's contract
GradedResponses ==
    { r \in SubmitResponses :
         r.kind = "object" /\ r.success /\ r.scoreOk /\ r.hasResults }

Rendered == <<testSummary, testResults, scoreDisplay>>

\* C23: the summary, the rendered test results and the score display change
\* only when a submit_solution call settles with success = true; a graded
\* response sets them to its counts and score, its per-test results and its
\* score to one decimal; a response with success = false and a transport
\* failure leave all three as they were and show an error notification.
C23_ResultsChangeOnSuccessOnly ==
    [][ /\ \A call \in BagToSet(pending), response \in SubmitResponses :
              SubmitSettles(call, response)
              => IF response \in GradedResponses
                 THEN /\ testSummary' =
                            response.passed_tests \o <<"/">>
                            \o response.total_tests
                            \o <<" tests passed | Score: ">>
                            \o toFixed1(response.score) \o <<"/">>
                            \o response.max_score
                      /\ Len(testResults') = Len(response.test_results)
                      /\ \A i \in 1..Len(response.test_results) :
                            /\ testResults'[i].name =
                                  escapeHtml(response.test_results[i].name)
                            /\ testResults'[i].status =
                                  IF response.test_results[i].passed
                                  THEN "Passed" ELSE "Failed"
                      /\ scoreDisplay' = toFixed1(response.score)
                 ELSE (response.kind # "object" \/ ~response.success)
                      => /\ Rendered' = Rendered
                         /\ notification'.type = "error"
        /\ Rendered' # Rendered
           => \E call \in BagToSet(pending) :
                 \E response \in SubmitResponses :
                    /\ response.kind = "object"
                    /\ response.success
                    /\ SubmitSettles(call, response) ]_vars

\* the response with score 7.5 of 10 and 3 of 4 tests passed has been
\* rendered
C23_Witness ==
    /\ testSummary = <<"3", "/", "4", " tests passed | Score: ",
                       "7", ".", "5", "/", "10">>
    /\ scoreDisplay = <<"7", ".", "5">>
    /\ Len(testResults) = 2
    /\ testResults[1].status = "Passed"
    /\ testResults[2].status = "Failed"
    /\ notification.type = "success"
    /\ ~isExecuting

\* the characters that start markup or an entity
MarkupChars == {"<", ">", "&"}

\* a piece of inner markup that holds a markup character as it came
HasRawMarkup(html) == \E j \in 1..Len(html) : html[j] \in MarkupChars

\* C24: no text of a response reaches the page unescaped: no rendered block
\* of the console, of the summary or of the test results holds a markup
\* character of a response field as it came.
C24_ResponseTextEscaped ==
    /\ \A i \in 1..Len(consoleOutput) : ~HasRawMarkup(consoleOutput[i].html)
    /\ ~HasRawMarkup(testSummary)
    /\ \A i \in 1..Len(testResults) :
          /\ ~HasRawMarkup(testResults[i].name)
          /\ ~HasRawMarkup(testResults[i].points)
          /\ \A k \in 1..Len(testResults[i].details) :
                ~HasRawMarkup(testResults[i].details[k])

\* the one error-styled line that shows text: as long as text, free of raw
\* markup characters, and equal to text wherever text has none
ErrorLineFor(out, text) ==
    /\ Len(out) = 1
    /\ out[1].cls = "error-line"
    /\ Len(out[1].html) = Len(text)
    /\ ~HasRawMarkup(out[1].html)
    /\ \A j \in 1..Len(text) :
          text[j] \notin MarkupChars => out[1].html[j] = text[j]

\* C25: a run_code response with success = false replaces the console
\* content by one error-styled line holding the escaped error text, or
\* "Execution failed" when there is none; a transport failure replaces it by
\* the one line "Failed to execute code"; in both cases the file map, the
\* tabs, the active file and the editor are unchanged.
C25_RunFailureShowsErrorLine ==
    [][ \A call \in BagToSet(pending), response \in RunResponses :
           (RunSettles(call, response)
            /\ (response.kind = "transport" \/ ~response.success))
           => /\ IF response.kind = "transport"
                 THEN ErrorLineFor(consoleOutput', <<"Failed to execute code">>)
                 ELSE response.kind = "object"
                      => ErrorLineFor(consoleOutput',
                                      IF response.error # <<>>
                                      THEN response.error
                                      ELSE <<"Execution failed">>)
              /\ UNCHANGED fileVars ]_vars

\* the response success = false with the error text E<1> has been shown
C25_Witness ==
    /\ consoleOutput =
          << [cls |-> "error-line", html |-> <<"E", "&lt;", "1", "&gt;">>] >>
    /\ ~isExecuting
    /\ pending = EmptyBag

\* C26: a keydown of s, r or Enter with ctrlKey or metaKey prevents the
\* default action and is the same step as a click on the save, run or
\* submit button: each is possible exactly when the other is, with the same
\* calls issued and the same next state; with isExecuting the run and the
\* submit shortcut issue no call.
C26_ShortcutsEqualButtons ==
    [][ \A e \in KeyEvents :
           (e.ctrlKey \/ e.metaKey)
           => /\ handleKeyboardShortcuts(e).preventDefault
              /\ e.key = "s" => (KeyDown(e) <=> ClickSaveBtn)
              /\ e.key = "r" => (KeyDown(e) <=> ClickRunBtn)
              /\ e.key = "Enter" => (KeyDown(e) <=> ClickSubmitBtn)
              /\ (isExecuting /\ e.key \in {"r", "Enter"} /\ KeyDown(e))
                 => (pending' = pending /\ confirmDialog' = confirmDialog)
      ]_vars

\* a run or submit was asked for while one was executing and was refused,
\* with a save_file call and the executing call in flight
C26_Witness ==
    /\ isExecuting
    /\ lastExec.branch = "guarded"
    /\ BagCardinality(pending) = 2
    /\ \E c \in BagToSet(pending) : c.origin = "save"
    /\ \E c \in BagToSet(pending) : c.origin \in {"runCode", "submitSolution"}

(***************************************************************************)
(* Studio form: repeated groups and field validation                       *)
(***************************************************************************)
\* C27: after every add and remove the number embedded in the input names
\* of a block follows the block's position: the k-th test case (from 0) is
\* named test_cases[k][...] and the k-th language (from 0) carries the
\* number k + 1 of the numbering language_1, language_2, ... in its names.
C27_NameIndexesContiguous ==
    /\ \A k \in 1..Len(studio.tests) : studio.tests[k].index = k - 1
    /\ \A k \in 1..Len(studio.langs) : studio.langs[k].key = k

\* C28: a click on the remove button of the only test case (language)
\* removes nothing and shows the error notification, and every step leaves
\* at least one test case and one language.
C28_LastBlockStays ==
    [][ /\ Len(studio'.tests) >= 1
        /\ Len(studio'.langs) >= 1
        /\ (Len(studio.tests) = 1 /\ removeTestCase(1)) =>
              /\ studio'.tests = studio.tests
              /\ studio'.note = "At least one test case is required"
        /\ (Len(studio.langs) = 1 /\ removeLanguage(1)) =>
              /\ studio'.langs = studio.langs
              /\ studio'.note = "At least one programming language must be supported"
      ]_vars

\* the remove button of the only test case was clicked after a test case
\* had been added and removed
C28_Witness ==
    /\ Len(studio.tests) = 1
    /\ studio.note = "At least one test case is required"
    /\ studio.tests[1].expected.value = <<>>

\* C29: no two test cases share a default id test_N and no two languages
\* share a key language_N.
C29_IdentifiersUnique ==
    /\ \A j, k \in 1..Len(studio.tests) :
          j # k => studio.tests[j].id # studio.tests[k].id
    /\ \A j, k \in 1..Len(studio.langs) :
          j # k => studio.langs[j].key # studio.langs[k].key

\* a value made of white space only
IsBlank(value) == \A j \in 1..Len(value) : value[j] = Space

\* none of the rules number and url of the field fails on its value
OtherRulesPass(field) ==
    /\ "number" \in field.validate => IsNumber(Trim(field.value))
    /\ "url" \in field.validate => IsUrl(Trim(field.value))

\* C30: validateField on a required field whose value is blank marks it
\* with the class error and the message "This field is required" and
\* returns false; on a required field with text on which no other rule
\* fails it leaves no error class and no message, marks it with the class
\* success and returns true.
C30_RequiredRule ==
    [][ (FieldBlur /\ "required" \in studio.field.validate) =>
           /\ IsBlank(studio.field.value) =>
                 /\ "error" \in studio'.field.classes
                 /\ studio'.field.feedback = <<"This field is required">>
                 /\ studio'.returned = "false"
           /\ (~IsBlank(studio.field.value) /\ OtherRulesPass(studio.field)) =>
                 /\ "error" \notin studio'.field.classes
                 /\ "success" \in studio'.field.classes
                 /\ studio'.field.feedback = <<>>
                 /\ studio'.returned = "true"
      ]_vars

\* a required field loaded holding one space has been validated on blur
C30_Witness ==
    /\ "required" \in studio.field.validate
    /\ studio.field.value = <<Space>>
    /\ studio.field.feedback = <<"This field is required">>
    /\ studio.returned = "false"
    /\ ~studio.saveDisabled

\* the message of the first rule of the field that fails on its value, the
\* rules taken in the order required, number, url; "" when none fails
FirstFailingMessage(field) ==
    IF "required" \in field.validate /\ IsBlank(field.value)
    THEN "This field is required"
    ELSE IF "number" \in field.validate /\ ~IsBlank(field.value) /\ ~IsNumber(Trim(field.value))
    THEN "Please enter a valid number"
    ELSE IF "url" \in field.validate /\ ~IsBlank(field.value) /\ ~IsUrl(Trim(field.value))
    THEN "Please enter a valid URL starting with http:// or https://"
    ELSE ""

\* C31: when a rule of the field fails, validateField marks the field with
\* the class error, returns false and leaves exactly one message, the one
\* of the first failing rule in the order required, number, url.
C31_FirstFailingRuleWins ==
    [][ (FieldBlur /\ FirstFailingMessage(studio.field) # "") =>
           /\ "error" \in studio'.field.classes
           /\ studio'.returned = "false"
           /\ studio'.field.feedback = <<FirstFailingMessage(studio.field)>>
      ]_vars

\* C32: validating a field a second time with its value unchanged leaves
\* the classes, the feedback and the value returned as the first
\* validation left them, and a field never has more than one feedback
\* message.
C32_ValidationIdempotent ==
    /\ Len(studio.field.feedback) <= 1
    /\ studio.field.validate # {} =>
          LET once == validateField(studio.field)
              twice == validateField(once.field)
          IN  /\ Len(once.field.feedback) <= 1
              /\ twice.field.classes = once.field.classes
              /\ twice.field.feedback = once.field.feedback
              /\ twice.isValid = once.isValid

\* a field that carried a message and the class success from earlier
\* validations has been validated on blur and carries one message
C32_Witness ==
    /\ studio.returned = "false"
    /\ studio.field.classes = {"error", "success"}
    /\ Len(studio.field.feedback) = 1
    /\ ~IsBlank(studio.field.value)

\* every field of the form that declares a rule passes its rules, and the
\* form holds a test case and a language
FormPasses(form) ==
    /\ FirstFailingMessage(form.field) = ""
    /\ \A k \in 1..Len(form.tests) : FirstFailingMessage(form.tests[k].expected) = ""
    /\ Len(form.tests) >= 1
    /\ Len(form.langs) >= 1

\* a handler that ends with validateForm() has run
validateFormHasRun ==
    \/ \E value \in FieldValues : FieldInput(value)
    \/ addTestCase
    \/ addLanguage

\* C33: validateForm returns true and enables the save button exactly when
\* every field declaring a rule (required, number or url) passes and the
\* form holds a test case and a language; otherwise it returns false and
\* disables the button.
C33_FormValidAggregatesAllFields ==
    [][ validateFormHasRun =>
           /\ studio'.returned = (IF FormPasses(studio') THEN "true" ELSE "false")
           /\ studio'.saveDisabled = ~FormPasses(studio')
      ]_vars

\* C34: after every event on the form (add, remove, input, blur) the save
\* button is disabled exactly when a field of the form fails its rules or
\* the form lacks a test case or a language.
C34_SaveButtonNeverStale ==
    [][ NextStudio => (studio'.saveDisabled = ~FormPasses(studio')) ]_vars

\* C40: no field carries the class success together with the class error:
\* the mark of an earlier validation does not outlive a validation with the
\* other outcome.
C40_MarksExclusive ==
    /\ ~({"error", "success"} \subseteq studio.field.classes)
    /\ \A k \in 1..Len(studio.tests) :
          ~({"error", "success"} \subseteq studio.tests[k].expected.classes)

(***************************************************************************)
(* Responses that arrive after the user has moved on                       *)
(***************************************************************************)
\* the names under which the map after the step stores a file or a content
\* that the map before the step did not store under that name
ContentChanged ==
    { studentFiles'[i].name : i \in
        { j \in 1..Len(studentFiles') :
             \/ GetFile(studentFiles, studentFiles'[j].name).def # studentFiles'[j].def
             \/ GetFile(studentFiles, studentFiles'[j].name).content # studentFiles'[j].content } }

\* C35: a save_file response changes the stored content of no file but the
\* one named in its request, and changes it to the content sent in that
\* request.
C35_SaveResponseUpdatesRequestedFile ==
    [][ \A call \in BagToSet(pending), outcome \in Outcomes :
           SaveSettles(call, outcome) =>
              \A name \in ContentChanged :
                 /\ name = call.filename
                 /\ GetFile(studentFiles', name).content = call.content
      ]_vars

\* C36: the handler of a successful delete_file response for a file issues
\* no save_file request naming that file: after the step no more such
\* requests are in flight than before it.
C36_NoSaveOfDeletedFile ==
    [][ \A call \in BagToSet(pending) :
           DeleteSettles(call, "ok") =>
              \A c \in BagToSet(pending') :
                 (c.origin = "save" /\ c.filename = call.filename) =>
                    CopiesIn(c, pending') <= CopiesIn(c, pending)
      ]_vars

\* the keys of a file map and the names of a list of tabs, as sets
KeySet(fs) == { fs[i].name : i \in 1..Len(fs) }

TabNameSet(ts) == { ts[i].filename : i \in 1..Len(ts) }

\* the set of names with one name replaced by another
Renamed(names, old, new) == (names \ {old}) \cup {new}

\* C37: a successful rename_file response renames, in the file map and in
\* the tabs, the file named as old_filename in its request, whatever file
\* is active when it arrives.
C37_RenameResponseRenamesRequestedFile ==
    [][ \A call \in BagToSet(pending) :
           (RenameSettles(call, "ok") /\ HasFile(studentFiles, call.filename)) =>
              /\ KeySet(studentFiles') =
                    Renamed(KeySet(studentFiles), call.filename, call.newname)
              /\ TabNameSet(tabs') =
                    Renamed(TabNameSet(tabs), call.filename, call.newname)
      ]_vars

\* C38: the active file is a key of the file map holding a file.
C38_ActiveFileInMap == HasFile(studentFiles, activeFile)

\* the number of tabs naming a file
TabCount(ts, filename) == Cardinality({ i \in 1..Len(ts) : ts[i].filename = filename })

\* C39: every file of the map has exactly one tab and every tab names a
\* file of the map.
C39_OneTabPerFile ==
    /\ \A name \in KeySet(studentFiles) : TabCount(tabs, name) = 1
    /\ \A i \in 1..Len(tabs) : tabs[i].filename \in KeySet(studentFiles)

====
